---- MODULE Spec2Model ----
(***************************************************************************)
(* Model of the game-tree search engines of backend/core:                  *)
(*   MinimaxController.run_minimax_search   (minimax_engine.py)            *)
(*   MaxNController.run_a_period_search     (maxn_engine.py)               *)
(*                                                                         *)
(* Representation:                                                         *)
(*   - scores are Python floats; the model counts them in tenths, so the   *)
(*     default 0.5 is 5 and the oracle's range [0.0, 1.0] is 0..10;        *)
(*   - Optional[x] is a sequence of length <= 1: None is <<>>, x is <<x>>; *)
(*   - a dict is a function whose domain is its key set; d[k] = v on a     *)
(*     dict is (k :> v) @@ d;                                              *)
(*   - a Python list is a sequence (index i of the list is i + 1 here).    *)
(***************************************************************************)
EXTENDS Integers, Sequences, FiniteSets, TLC

\* ---------------------------------------------------------------- bounds
MaxActions == 2
MaxOpponents == 2
MaxMoves == 2
MaxPeriods == 3
MaxLeaves == 12
TwiceMaxLeaves == 4
MaxOracleFaults == 1
LoopCap == 12
PlanMaxActions == 4
PlanMaxOpponents == 4
PlanMaxMoves == 6
PlanMaxPeriods == 11
\* the searches whose scenario count crosses the batch size: one opponent, one
\* move each, so a search of n actions over t periods scores n^t scenarios
\* (10, 11, 100 and 121 scenarios: one batch, a full batch, two batches)
BatchActionCounts == {10, 11}
BatchPeriods == {1, 2}
\* the searches whose horizon the cap cuts while the tree stays small: 39
\* scenarios a period (39^2 > 1500), from 13 actions and three moves or from
\* 39 actions and one move
WideActionCounts == {13, 39}
WideMoves == {1, 3}
WidePeriods == {0 - 1, 0, 1, 2, 3}
\* the searches that show every stage: 2, 4, 11 and 121 scenarios, the last in
\* two batches
OrderActionCounts == {2, 11}

\* ------------------------------------------------------ program constants
MAX_SCENARIOS == 1500
BATCH_SIZE == 100
DEFAULT_SCORE == 5
INF == 1000000
DEFAULT_PLAYERS == 3

\* ---------------------------------------------------------------- helpers
None == <<>>
Some(x) == <<x>>

Range(s) == {s[i] : i \in DOMAIN s}

RECURSIVE Pow(_, _)
Pow(b, e) == IF e <= 0 THEN 1 ELSE b * Pow(b, e - 1)

PyMax(a, b) == IF b > a THEN b ELSE a
PyMin(a, b) == IF b < a THEN b ELSE a

\* TRUE, once x has a value. The definitions below test it on a local value
\* before they use that value in a loop, so that it is computed once, before
\* the loop, as in the program.
Evaluated(x) == x = x

\* s[lo:], every remaining element, which a batch loop must not send
SliceToEnd(s, lo, hi) == SubSeq(s, lo + 1, Len(s))
\* s[lo:hi] of a Python list (0-based, hi exclusive, clipped to the list)
Slice(s, lo, hi) == SubSeq(s, lo + 1, PyMin(hi, Len(s)))

\* ------------------------------------------------------------------ names
\* Labels are opaque strings: the action sets the model passes are the lists of
\* n distinct labels, the lists that repeat one label, and one list of worded
\* labels.
ActionLabel(i) == IF i = 1 THEN "A" ELSE IF i = 2 THEN "B" ELSE "C" \o ToString(i)
DistinctActions(n) == [i \in 1..n |-> ActionLabel(i)]
RepeatedActions(n) == [i \in 1..n |-> ActionLabel(1)]
ActionSets == {DistinctActions(n) : n \in 0..MaxActions}
                \cup {RepeatedActions(n) : n \in 2..MaxActions}
                \cup {<<"Cut Price", "Raise Quality">>}

PlayerName(i) == IF i = 0 THEN "Acme" ELSE "Rival" \o ToString(i)
Profiles(k) == [i \in 1..(k + 1) |-> PlayerName(i - 1)]

NodeId(n) == "node_" \o ToString(n)
ScenarioId(idx) == "s" \o ToString(idx)

VARIABLES
  engine,               \* "minimax" | "maxn": the controller class constructed
  player_profiles,      \* self.player_profiles (names), index 0 first
  tree_nodes,           \* self.tree_nodes: node id -> TreeNode
  node_counter,         \* self.node_counter
  pc,                   \* position inside the running search
  calls,                \* searches started on this controller
  action_set,           \* argument action_set
  requested_periods,    \* argument time_periods as passed by the caller
  time_periods,         \* local time_periods (after the cap)
  moves_per_opponent,   \* argument moves_per_opponent
  scenarios_per_period, \* local of the period cap
  max_safe_periods,     \* local of the period cap
  total_scenarios,      \* local of the period cap
  loop_parity,          \* parity of the cap loop's iteration count
  opponent_moves_by_period, \* [period][opponent] -> moves
  period_moves,         \* moves of the period being generated
  move_calls,           \* MoveOracle calls of this search
  scenarios,            \* list of (scenario id, path)
  all_scores,           \* accumulating score map of _batch_evaluate_scenarios
  batch_index,          \* loop variable i of the batch loop
  score_calls,          \* ScoreOracle calls of this search
  score_batches,        \* the scenario ids listed in each ScoreOracle prompt, in call order
  last_response,        \* what the last oracle call returned (local response)
  oracle_faults,        \* oracle answers of this search that were not the
                        \* complete answer the prompt asks for
  result,               \* the returned tuple, None before the return
  requests,             \* the /wargame/run requests of the process: for each, where
                        \* its coroutine stands, the action_set it came with
                        \* (None before it is read) and the action_set it works with
  oracle_mode,          \* "live": the agents answer as they please; "mock": the
                        \* oracle pair is a deterministic mock, which answers a
                        \* second search as it answered the first
  oracle_log,           \* the mock's record: its answers in call order, and
                        \* how many of them the second search has been given
  first_return          \* what the first search on a mock returned, None before

vars == <<engine, player_profiles, tree_nodes, node_counter, pc, calls,
          action_set, requested_periods, time_periods, moves_per_opponent,
          scenarios_per_period, max_safe_periods, total_scenarios, loop_parity,
          opponent_moves_by_period, period_moves, move_calls,
          scenarios, all_scores, batch_index, score_calls, score_batches,
          last_response, oracle_faults, result, requests,
          oracle_mode, oracle_log, first_return>>

controllerVars == <<engine, player_profiles, oracle_mode>>
argVars == <<action_set, requested_periods, moves_per_opponent, requests>>
capVars == <<scenarios_per_period, max_safe_periods, total_scenarios, loop_parity>>
treeVars == <<tree_nodes, node_counter, first_return>>
moveVars == <<opponent_moves_by_period, period_moves, move_calls>>
scoreVars == <<scenarios, all_scores, batch_index, score_calls, score_batches>>
oracleVars == <<last_response, oracle_faults, oracle_log>>

num_opponents == Len(player_profiles) - 1

EmptyDict == [x \in {} |-> 0]

\* ------------------------------------------------------------ construction
\* MinimaxController.__init__ / MaxNController.__init__
\* a mock that has answered nothing yet

\* The requests the model's process serves at a time, each a run_wargame
\* coroutine of its own on the one event loop.
RequestIds == {1, 2}

\* a request not yet received
NewRequest == [stage |-> "new", request_action_set |-> <<>>, action_set |-> <<>>]
NoRequests == [r \in RequestIds |-> NewRequest]

\* a call made on a controller directly, in a process that serves no request
DirectCall == requests = NoRequests /\ requests' = requests

NoLog == [answers |-> <<>>, pos |-> 0]

InitHarness(e, k, mode) ==
  /\ engine = e
  /\ player_profiles = Profiles(k)
  /\ tree_nodes = EmptyDict
  /\ node_counter = 0
  /\ pc = "idle"
  /\ calls = 0
  /\ action_set = <<>>
  /\ requested_periods = 0
  /\ time_periods = 0
  /\ moves_per_opponent = 0
  /\ scenarios_per_period = 0
  /\ max_safe_periods = 0
  /\ total_scenarios = 0
  /\ loop_parity = 0
  /\ opponent_moves_by_period = <<>>
  /\ period_moves = <<>>
  /\ move_calls = 0
  /\ scenarios = <<>>
  /\ all_scores = EmptyDict
  /\ batch_index = 0
  /\ score_calls = 0
  /\ score_batches = <<>>
  /\ last_response = None
  /\ oracle_faults = 0
  /\ result = None
  /\ requests = NoRequests
  /\ oracle_mode = mode
  /\ oracle_log = NoLog
  /\ first_return = None

InitController(e, k) == InitHarness(e, k, "live")

\* A deterministic mock answers the same prompt the same way. The prompts of a
\* search are a function of its arguments, so the mock answers the calls of a
\* second search with the same arguments as it answered the first search's, in
\* order; a call beyond the first search's is answered afresh.
Replaying ==
  oracle_mode = "mock" /\ calls = 2 /\ oracle_log.pos < Len(oracle_log.answers)

MockAnswers(live) ==
  IF Replaying THEN {oracle_log.answers[oracle_log.pos + 1]} ELSE live

MockAfter(answer) ==
  IF oracle_mode # "mock" THEN oracle_log
  ELSE IF calls = 1 THEN [oracle_log EXCEPT !.answers = Append(@, answer)]
  ELSE [oracle_log EXCEPT !.pos = @ + 1]

Init == \E e \in {"minimax", "maxn"}, k \in 0..MaxOpponents : InitController(e, k)

InitPlan == \E k \in 0..PlanMaxOpponents : InitController("minimax", k)

\* ------------------------------------------------- run_minimax_search: cap
\* Leaves of the tree a call builds (the model's input bound is stated on it).
LeafCount(n, m, k, t) == Pow(n * Pow(m, k), PyMax(t, 0))

\* lines 465-483: entry, scenarios_per_period, loop initialisation
EnterMinimax(acts, t, m) ==
  /\ pc \in {"idle", "done"}
  /\ engine = "minimax"
  /\ calls' = calls + 1
  /\ action_set' = acts
  /\ requested_periods' = t
  /\ time_periods' = t
  /\ moves_per_opponent' = m
  /\ scenarios_per_period' = Len(acts) * Pow(m, PyMax(num_opponents, 1))
  /\ max_safe_periods' = 1
  /\ total_scenarios' = Len(acts) * Pow(m, PyMax(num_opponents, 1))
  /\ loop_parity' = 0
  /\ result' = None
  /\ pc' = "cap"
  /\ UNCHANGED <<controllerVars, treeVars, moveVars, scoreVars, oracleVars>>

CallMinimax ==
  /\ calls = 0
  /\ \E acts \in ActionSets, t \in (0 - 1)..MaxPeriods, m \in 1..MaxMoves :
       /\ LeafCount(Len(acts), m, num_opponents, t) <= MaxLeaves
       /\ EnterMinimax(acts, t, m)
  /\ DirectCall

CallMinimaxPlan ==
  /\ calls = 0
  /\ \E n \in 1..PlanMaxActions, t \in 1..PlanMaxPeriods, m \in 1..PlanMaxMoves :
       EnterMinimax(DistinctActions(n), t, m)
  /\ DirectCall

\* lines 484-486: one iteration of the while loop. Python integers do not
\* overflow; the model stops counting max_safe_periods at LoopCap, which no
\* terminating run reaches (2^11 > MAX_SCENARIOS), and keeps the parity of the
\* iteration count.
CapLoop ==
  /\ pc = "cap"
  /\ total_scenarios <= MAX_SCENARIOS
  /\ max_safe_periods' = PyMin(max_safe_periods + 1, LoopCap)
  /\ total_scenarios' = total_scenarios * scenarios_per_period
  /\ loop_parity' = 1 - loop_parity
  /\ UNCHANGED <<controllerVars, treeVars, pc, calls, argVars, time_periods,
                 scenarios_per_period, moveVars, scoreVars, oracleVars, result>>

\* a cap that forgets to step back to the last count that fitted
CappedPeriodsNoStepBack(msp, t) ==
  LET safe == PyMax(msp, 1) IN IF t > safe THEN safe ELSE t

\* a cap that never reduces the requested horizon
CappedPeriodsUnreduced(msp, t) == t

\* a cap whose floor is two periods instead of one
CappedPeriodsFloorTwo(msp, t) ==
  LET safe == PyMax(msp - 1, 2) IN IF t > safe THEN safe ELSE t

\* lines 487-496: leave the loop, floor of one period, reduce time_periods
CappedPeriods(msp, t) ==
  LET safe == PyMax(msp - 1, 1) IN IF t > safe THEN safe ELSE t

CapExit ==
  /\ pc = "cap"
  /\ ~(total_scenarios <= MAX_SCENARIOS)
  /\ max_safe_periods' = PyMax(max_safe_periods - 1, 1)
  /\ time_periods' = CappedPeriods(max_safe_periods, time_periods)
  /\ pc' = "reset"
  /\ UNCHANGED <<controllerVars, treeVars, calls, argVars, scenarios_per_period,
                 total_scenarios, loop_parity, moveVars, scoreVars, oracleVars, result>>

\* --------------------------------------------------------------- TreeNode
\* schemas.TreeNode: the fields the engines pass, the others at their defaults
TreeNode(id, label, player_index, parent_id, score, time_period, is_root, is_leaf, is_max_node) ==
  [id |-> id, label |-> label, player_index |-> player_index,
   parent_id |-> parent_id, children |-> <<>>, score |-> score,
   time_period |-> time_period, is_root |-> is_root, is_leaf |-> is_leaf,
   is_max_node |-> is_max_node]

\* the values schemas.TreeNode gives the fields a constructor call leaves out
DefaultTimePeriod == None
DefaultFlag == FALSE

\* self.tree_nodes[node.id] = node
PutNode(nodes, node) == (node.id :> node) @@ nodes

\* a link that lists the child twice under its parent
AppendChildTwice(nodes, parent_id, child_id) ==
  [nodes EXCEPT ![parent_id].children = Append(Append(@, child_id), child_id)]

\* self.tree_nodes[parent_id].children.append(child_id)
AppendChild(nodes, parent_id, child_id) ==
  [nodes EXCEPT ![parent_id].children = Append(@, child_id)]

\* node.score = child_score
SetScore(nodes, node_id, score) ==
  [nodes EXCEPT ![node_id].score = Some(score)]

\* f"{score:.2f}" of a score counted in tenths
Fmt2(score) ==
  IF score >= INF THEN "inf"
  ELSE IF score <= 0 - INF THEN "-inf"
  ELSE IF score < 0 THEN "-" \o ToString((0 - score) \div 10) \o "."
                             \o ToString((0 - score) % 10) \o "0"
  ELSE ToString(score \div 10) \o "." \o ToString(score % 10) \o "0"

time_period_unit == "quarter"

\* lines 502-527: reset the controller's tree and create the root
RootNode(t) ==
  TreeNode(NodeId(0), "Game Start (" \o ToString(t) \o " " \o time_period_unit \o "s)",
           None, None, None, Some(0 - 1), TRUE, DefaultFlag, TRUE)

\* a search that restarts the counter but writes into the dict it finds
ResetTreeKeepsDict ==
  /\ pc = "reset"
  /\ tree_nodes' = PutNode(tree_nodes, RootNode(time_periods))
  /\ node_counter' = 1
  /\ opponent_moves_by_period' = <<>>
  /\ period_moves' = <<>>
  /\ move_calls' = 0
  /\ scenarios' = <<>>
  /\ all_scores' = EmptyDict
  /\ batch_index' = 0
  /\ score_calls' = 0
  /\ score_batches' = <<>>
  /\ last_response' = None
  /\ oracle_faults' = 0
  /\ oracle_log' = [oracle_log EXCEPT !.pos = 0]
  /\ first_return' = first_return
  /\ pc' = "moves"
  /\ UNCHANGED <<controllerVars, calls, argVars, time_periods, capVars, result>>

\* a search that adds its root to the nodes the controller already holds and
\* goes on counting where the last search stopped
ResetTreeKeepsNodes ==
  /\ pc = "reset"
  /\ tree_nodes' = PutNode(tree_nodes, RootNode(time_periods))
  /\ node_counter' = node_counter + 1
  /\ opponent_moves_by_period' = <<>>
  /\ period_moves' = <<>>
  /\ move_calls' = 0
  /\ scenarios' = <<>>
  /\ all_scores' = EmptyDict
  /\ batch_index' = 0
  /\ score_calls' = 0
  /\ score_batches' = <<>>
  /\ last_response' = None
  /\ oracle_faults' = 0
  /\ oracle_log' = [oracle_log EXCEPT !.pos = 0]
  /\ first_return' = first_return
  /\ pc' = "moves"
  /\ UNCHANGED <<controllerVars, calls, argVars, time_periods, capVars, result>>

\* lines 502-520: self.tree_nodes = {}, self.node_counter = 0, then the root
ResetTree ==
  /\ pc = "reset"
  /\ tree_nodes' = PutNode(EmptyDict, RootNode(time_periods))
  /\ node_counter' = 1
  /\ opponent_moves_by_period' = <<>>
  /\ period_moves' = <<>>
  /\ move_calls' = 0
  /\ scenarios' = <<>>
  /\ all_scores' = EmptyDict
  /\ batch_index' = 0
  /\ score_calls' = 0
  /\ score_batches' = <<>>
  /\ last_response' = None
  /\ oracle_faults' = 0
  /\ oracle_log' = [oracle_log EXCEPT !.pos = 0]
  /\ first_return' = first_return
  /\ pc' = "moves"
  /\ UNCHANGED <<controllerVars, calls, argVars, time_periods, capVars, result>>

\* -------------------------------------------------------------- MoveOracle
\* What Agent.call_agent hands back for a move prompt: None (no final
\* response, or text json.loads rejects), a JSON value that is no object, or an
\* object; of an object the model keeps the keys the engines look at.
MoveResponse(kind, other, has_moves, is_list, moves, has_selected, selected) ==
  [kind |-> kind, other |-> other, has_moves |-> has_moves, moves_is_list |-> is_list,
   moves |-> moves, has_selected |-> has_selected, selected_move |-> selected]

OracleLabel(j) == IF j = 1 THEN "X" ELSE IF j = 2 THEN "Y" ELSE "Z" \o ToString(j)
OracleMoves(n) == [j \in 1..n |-> OracleLabel(j)]

MovesAnswer(moves) == MoveResponse("dict", FALSE, TRUE, TRUE, moves, FALSE, "")

\* A "moves" value that is a string instead of a list. The strings the model's
\* oracle writes are the prefixes of "XYZW"; an answer keeps the string's
\* characters in its moves field, with moves_is_list FALSE.
TextLabels == <<"X", "Y", "Z", "W">>

RECURSIVE Text(_)
Text(n) == IF n <= 0 THEN "" ELSE Text(n - 1) \o TextLabels[n]

TextAnswer(n) ==
  MoveResponse("dict", FALSE, TRUE, FALSE, SubSeq(TextLabels, 1, n), FALSE, "")

\* isinstance(v, str) and len(v) of a value that is a list or one of the strings
IsText(v) == \E n \in 0..Len(TextLabels) : ToString(v) = ToString(Text(n))
TextLen(v) == CHOOSE n \in 0..Len(TextLabels) : ToString(v) = ToString(Text(n))

\* what iterating over v yields: the characters of a string, the items of a list
Letters(v) == IF IsText(v) THEN SubSeq(TextLabels, 1, TextLen(v)) ELSE v

MoveLists(all_opponent_moves) ==
  [i \in 1..Len(all_opponent_moves) |-> Letters(all_opponent_moves[i])]

\* the answer the prompt asks for: num_moves labels
WellFormedMoves(num_moves) == MovesAnswer(OracleMoves(num_moves))

OtherMoveResponses(num_moves) ==
  {MoveResponse("none", FALSE, FALSE, FALSE, <<>>, FALSE, ""),
   MoveResponse("nondict", FALSE, FALSE, FALSE, <<>>, FALSE, ""),
   MoveResponse("dict", FALSE, FALSE, FALSE, <<>>, FALSE, ""),
   MoveResponse("dict", TRUE, FALSE, FALSE, <<>>, FALSE, ""),
   MoveResponse("dict", FALSE, TRUE, FALSE, <<>>, FALSE, ""),
   MoveResponse("dict", FALSE, FALSE, FALSE, <<>>, TRUE, "X"),
   MovesAnswer([j \in 1..num_moves |-> OracleLabel(num_moves + 1 - j)]),
   MovesAnswer([j \in 1..num_moves |-> OracleLabel(1)])}
    \cup {MovesAnswer(OracleMoves(n)) : n \in 0..(num_moves + 1)}
    \cup {TextAnswer(n) : n \in {num_moves - 1, num_moves, num_moves + 1} \cap (1..Len(TextLabels))}

\* The answers the model's MoveOracle gives: any of them while fewer than
\* MaxOracleFaults answers of this search fell short of the prompt, the
\* well-formed one afterwards.
MoveFault(answer, num_moves) == IF answer = WellFormedMoves(num_moves) THEN 0 ELSE 1

MoveAnswers(num_moves) ==
  {answer \in {WellFormedMoves(num_moves)} \cup OtherMoveResponses(num_moves) :
     oracle_faults + MoveFault(answer, num_moves) <= MaxOracleFaults}

\* `response and isinstance(response, dict)`: an empty dict is falsy
TruthyDict(response) ==
  /\ response.kind = "dict"
  /\ (response.other \/ response.has_moves \/ response.has_selected)

\* a fallback that numbers its placeholders from 1, whatever their position
PadStrategiesFromOne(moves, name, num_moves) ==
  moves \o [k \in 1..(num_moves - Len(moves)) |-> name \o " Strategy " \o ToString(k)]

\* lines 144-153 of MinimaxController._generate_opponent_moves
RECURSIVE PadStrategies(_, _, _)
PadStrategies(moves, name, num_moves) ==
  IF Len(moves) < num_moves
  THEN PadStrategies(Append(moves, name \o " Strategy " \o ToString(Len(moves) + 1)),
                     name, num_moves)
  ELSE moves

_generate_opponent_moves(response, player_index, num_moves) ==
  LET listed == IF /\ TruthyDict(response)
                   /\ response.has_moves
                   /\ response.moves_is_list
                THEN Slice(response.moves, 0, num_moves)
                ELSE <<>>
  IN Slice(PadStrategies(listed, player_profiles[player_index + 1], num_moves),
           0, num_moves)

\* lines 538-556: one pass of the inner loop: a MoveOracle call and its result
GenerateOpponentMoves ==
  /\ pc = "moves"
  /\ engine = "minimax"
  /\ Len(opponent_moves_by_period) < time_periods
  /\ Len(period_moves) < num_opponents
  /\ \E answer \in MockAnswers(MoveAnswers(moves_per_opponent)) :
       /\ last_response' = Some(answer)
       /\ oracle_faults' = oracle_faults + MoveFault(answer, moves_per_opponent)
       /\ oracle_log' = MockAfter(answer)
       /\ period_moves' = Append(period_moves,
            _generate_opponent_moves(answer, Len(period_moves) + 1, moves_per_opponent))
  /\ move_calls' = move_calls + 1
  /\ UNCHANGED <<controllerVars, treeVars, pc, calls, argVars, time_periods, capVars,
                 opponent_moves_by_period, scoreVars, result>>

\* line 556: opponent_moves_by_period.append(period_moves), next period
EndPeriod ==
  /\ pc = "moves"
  /\ engine = "minimax"
  /\ Len(opponent_moves_by_period) < time_periods
  /\ Len(period_moves) >= num_opponents
  /\ opponent_moves_by_period' = Append(opponent_moves_by_period, period_moves)
  /\ period_moves' = <<>>
  /\ UNCHANGED <<controllerVars, treeVars, pc, calls, argVars, time_periods, capVars,
                 move_calls, scoreVars, oracleVars, result>>

\* ------------------------------------------------------ scenario enumeration
RECURSIVE Flatten(_)
Flatten(seqs) == IF seqs = <<>> THEN <<>> ELSE Head(seqs) \o Flatten(Tail(seqs))

\* itertools.product(*lists): the first list varies slowest; no list, one ()
RECURSIVE Product(_)
Product(lists) ==
  IF lists = <<>> THEN << <<>> >>
  ELSE LET rest == Product(Tail(lists))
       IN CASE Evaluated(rest) ->
            Flatten([i \in 1..Len(Head(lists)) |->
                       [j \in 1..Len(rest) |-> <<Head(lists)[i]>> \o rest[j]]])

\* opponent_moves_by_period[period][i] for i in range(num_opponents)
\* every period played with the lists obtained for the first period
OpponentOptionsFirstPeriod(period) ==
  [i \in 1..num_opponents |-> opponent_moves_by_period[1][i]]

OpponentOptions(period) ==
  [i \in 1..num_opponents |-> opponent_moves_by_period[period + 1][i]]

MoveEntry(period, player, move) ==
  [period |-> period + 1, player |-> player_profiles[player + 1], move |-> move]

\* lines 565-603
RECURSIVE generate_scenario_paths(_, _)
generate_scenario_paths(period, move_sequence) ==
  IF period >= time_periods THEN <<move_sequence>>
  ELSE LET opponent_combos == Product(OpponentOptions(period))
       IN CASE Evaluated(opponent_combos) /\ Evaluated(move_sequence) ->
          Flatten([a \in 1..Len(action_set) |->
            Flatten([c \in 1..Len(opponent_combos) |->
              generate_scenario_paths(period + 1,
                move_sequence
                  \o <<MoveEntry(period, 0, action_set[a])>>
                  \o [o \in 1..Len(opponent_combos[c]) |->
                        MoveEntry(period, o, opponent_combos[c][o])])])])

\* an enumeration that numbers the paths from s1
NumberScenariosFromOne(paths) ==
  [n \in 1..Len(paths) |-> [id |-> ScenarioId(n), path |-> paths[n]]]

\* lines 605-607: scenarios.append((f"s{idx}", path))
NumberScenarios(paths) ==
  [n \in 1..Len(paths) |-> [id |-> ScenarioId(n - 1), path |-> paths[n]]]

EnumerateScenarios ==
  /\ pc = "moves"
  /\ engine = "minimax"
  /\ Len(opponent_moves_by_period) >= time_periods
  /\ scenarios' = NumberScenarios(generate_scenario_paths(0, <<>>))
  /\ all_scores' = EmptyDict
  /\ batch_index' = 0
  /\ pc' = "scoring"
  /\ UNCHANGED <<controllerVars, treeVars, calls, argVars, time_periods, capVars,
                 moveVars, score_calls, score_batches, oracleVars, result>>

\* ------------------------------------------------------------- ScoreOracle
\* A JSON value found under "scenario_id": a string, a number (a key of its
\* own, written "#n" here), a list (unhashable), or the key is missing.
SidStr(id) == [t |-> "str", v |-> id]
SidInt(n) == [t |-> "int", v |-> ToString(n)]
SidList == [t |-> "list", v |-> ""]
SidMissing == [t |-> "missing", v |-> ""]

\* A JSON value found under "score": a number (tenths), null, a string float()
\* parses ("0.8"), a non-empty string it rejects ("high"), a value that is
\* falsy without being a number or null ("", [], {}, false), true, or the key
\* is missing.
ScoreNum(v) == [t |-> "num", v |-> v]
ScoreNumText(v) == [t |-> "numtext", v |-> v]
ScoreText == [t |-> "text", v |-> 0]
ScoreEmpty == [t |-> "empty", v |-> 0]
ScoreTrue == [t |-> "true", v |-> 10]
ScoreNull == [t |-> "null", v |-> 0]
ScoreMissing == [t |-> "missing", v |-> 0]

ScoreItem(sid, score) == [is_dict |-> TRUE, sid |-> sid, score |-> score]
NonDictItem == [is_dict |-> FALSE, sid |-> SidMissing, score |-> ScoreMissing]

\* What Agent.call_agent hands back for a scoring prompt. scores_kind says what
\* sits under "scores": "list", "string" (iterates over characters) or "number"
\* (not iterable).
ScoreResponse(kind, other, has_scores, scores_kind, items) ==
  [kind |-> kind, other |-> other, has_scores |-> has_scores,
   scores_kind |-> scores_kind, items |-> items]

ScoresAnswer(items) == ScoreResponse("dict", FALSE, TRUE, "list", items)

\* the model's oracles rate the scenario of index idx by one of these rules
NumScoreRules == 4
ScoreRule(rule, idx) ==
  IF rule = 1 THEN (3 + 5 * idx) % 11
  ELSE IF rule = 2 THEN (3 * idx) % 11
  ELSE IF rule = 3 THEN 8
  ELSE IF rule = 4 THEN (9 + 7 * idx) % 11
  ELSE (rule + 7 * idx) % 11

\* which scenarios an answer leaves out
NumOmitRules == 4
Omits(omit, idx) ==
  IF omit = 1 THEN FALSE
  ELSE IF omit = 2 THEN idx % 2 = 1
  ELSE IF omit = 3 THEN idx % 2 = 0
  ELSE IF omit = 4 THEN TRUE
  ELSE idx % omit = 0

\* the answer that rates, in order, the scenarios of the chunk it does not omit
AnswerItems(chunk, first_idx, rule, omit) ==
  LET kept == SelectSeq([n \in 1..Len(chunk) |-> n],
                        LAMBDA n : ~Omits(omit, first_idx + n - 1))
  IN CASE Evaluated(kept) ->
     [j \in 1..Len(kept) |->
        ScoreItem(SidStr(chunk[kept[j]].id),
                  ScoreNum(ScoreRule(rule, first_idx + kept[j] - 1)))]

\* items an answer may carry besides the scores asked for
ExtraItems(chunk, first_idx) ==
  {NonDictItem,
   ScoreItem(SidStr(ScenarioId(first_idx)), ScoreText),
   ScoreItem(SidStr(ScenarioId(first_idx)), ScoreEmpty),
   ScoreItem(SidStr(ScenarioId(first_idx)), ScoreTrue),
   ScoreItem(SidStr(ScenarioId(first_idx)), ScoreNull),
   ScoreItem(SidStr(ScenarioId(first_idx)), ScoreMissing),
   ScoreItem(SidStr(ScenarioId(first_idx)), ScoreNumText(9)),
   ScoreItem(SidStr(ScenarioId(first_idx)), ScoreNum(1)),
   ScoreItem(SidList, ScoreNum(9)),
   ScoreItem(SidInt(first_idx), ScoreNum(9)),
   ScoreItem(SidMissing, ScoreNum(9)),
   ScoreItem(SidStr(ScenarioId(0)), ScoreNum(9)),
   ScoreItem(SidStr(ScenarioId(first_idx + Len(chunk))), ScoreNum(9))}

\* the answers the prompt asks for: a score for every scenario of the chunk
WellFormedScores(chunk, first_idx) ==
  {ScoresAnswer(AnswerItems(chunk, first_idx, rule, 1)) : rule \in 1..NumScoreRules}

OtherScoreResponses(chunk, first_idx) ==
  {ScoreResponse("none", FALSE, FALSE, "list", <<>>),
   ScoreResponse("nondict", FALSE, FALSE, "list", <<>>),
   ScoreResponse("dict", FALSE, FALSE, "list", <<>>),
   ScoreResponse("dict", TRUE, FALSE, "list", <<>>),
   ScoreResponse("dict", FALSE, TRUE, "string", <<>>),
   ScoreResponse("dict", FALSE, TRUE, "number", <<>>)}
    \cup {ScoresAnswer(AnswerItems(chunk, first_idx, rule, omit)) :
            rule \in 1..NumScoreRules, omit \in 2..NumOmitRules}
    \cup {ScoresAnswer(Append(AnswerItems(chunk, first_idx, 1, 1), extra)) :
            extra \in ExtraItems(chunk, first_idx)}

\* The answers the model's ScoreOracle gives, bounded like the MoveOracle's.
ScoreAnswers(chunk, first_idx) ==
  WellFormedScores(chunk, first_idx)
    \cup (IF oracle_faults < MaxOracleFaults
          THEN OtherScoreResponses(chunk, first_idx) ELSE {})

\* `response and isinstance(response, dict)` for a scoring answer
TruthyScoreDict(response) ==
  /\ response.kind = "dict"
  /\ (response.other \/ response.has_scores)

\* the dict key a scenario_id value becomes
DictKey(sid) == IF sid.t = "int" THEN "#" \o sid.v ELSE sid.v

\* line 226: float(score) if score else 0.5; TRUE in .raises when float()
\* raises. A falsy score never reaches float(); float(True) is 1.0.
ParseScore(score) ==
  IF score.t = "missing" THEN [raises |-> FALSE, v |-> DEFAULT_SCORE]
  ELSE IF score.t = "null" THEN [raises |-> FALSE, v |-> DEFAULT_SCORE]
  ELSE IF score.t = "empty" THEN [raises |-> FALSE, v |-> DEFAULT_SCORE]
  ELSE IF score.t = "text" THEN [raises |-> TRUE, v |-> DEFAULT_SCORE]
  ELSE IF score.v = 0 /\ score.t = "num" THEN [raises |-> FALSE, v |-> DEFAULT_SCORE]
  ELSE [raises |-> FALSE, v |-> score.v]

\* the greatest element of a non-empty set of integers
SetMax(S) == CHOOSE x \in S : \A y \in S : y <= x

\* lines 222-226: the loop over response["scores"]. It raises at the first
\* dict item whose score float() rejects or whose scenario_id is unhashable;
\* otherwise every key holds the score of the last item that names it.
ItemRaises(item) ==
  item.is_dict /\ (ParseScore(item.score).raises \/ item.sid.t = "list")

ParseItems(items) ==
  LET dicts == {i \in 1..Len(items) : items[i].is_dict}
      keys == {DictKey(items[i].sid) : i \in dicts}
  IN CASE Evaluated(dicts) /\ Evaluated(keys) ->
     IF \E i \in dicts : ItemRaises(items[i])
     THEN [raises |-> TRUE, scores |-> EmptyDict]
     ELSE [raises |-> FALSE,
           scores |-> [k \in keys |->
              ParseScore(items[SetMax({i \in dicts : DictKey(items[i].sid) = k})].score).v]]

\* lines 228-231: fill in any missing scores with the default
FillMissing(chunk, scores) ==
  CASE Evaluated(scores) ->
  [k \in DOMAIN scores \cup {chunk[n].id : n \in 1..Len(chunk)} |->
     IF k \in DOMAIN scores THEN scores[k] ELSE DEFAULT_SCORE]

\* lines 216-233 of _evaluate_scenario_chunk (and 200-218 of the max-n
\* _batch_evaluate_scenarios): the answer parsed into a score map
_evaluate_scenario_chunk(response, chunk) ==
  IF TruthyScoreDict(response) /\ response.has_scores
  THEN IF response.scores_kind = "number"
       THEN [raises |-> TRUE, scores |-> EmptyDict]
       ELSE LET parsed == ParseItems(IF response.scores_kind = "list"
                                     THEN response.items ELSE <<>>)
            IN [raises |-> parsed.raises, scores |-> FillMissing(chunk, parsed.scores)]
  ELSE [raises |-> FALSE, scores |-> FillMissing(chunk, EmptyDict)]

\* lines 197-204: the scenario ids the prompt of one ScoreOracle call lists
ScenarioIdsOf(chunk) ==
  [n \in 1..Len(chunk) |-> chunk[n].id]

\* lines 174-180: one pass of the batch loop: a ScoreOracle call and the merge
EvaluateBatch ==
  /\ pc = "scoring"
  /\ engine = "minimax"
  /\ batch_index < Len(scenarios)
  /\ \E chunk \in {Slice(scenarios, batch_index, batch_index + BATCH_SIZE)} :
     \E answer \in MockAnswers(ScoreAnswers(chunk, batch_index)) :
     \E chunk_scores \in {_evaluate_scenario_chunk(answer, chunk)} :
       /\ last_response' = Some(answer)
       /\ oracle_log' = MockAfter(answer)
       /\ oracle_faults' = IF answer \in WellFormedScores(chunk, batch_index)
                            THEN oracle_faults ELSE oracle_faults + 1
       /\ IF chunk_scores.raises
          THEN /\ pc' = "raised"
               /\ UNCHANGED <<all_scores, batch_index>>
          ELSE /\ all_scores' = chunk_scores.scores @@ all_scores
               /\ batch_index' = batch_index + BATCH_SIZE
               /\ pc' = pc
       /\ score_batches' = Append(score_batches, ScenarioIdsOf(chunk))
  /\ score_calls' = score_calls + 1
  /\ UNCHANGED <<controllerVars, treeVars, calls, argVars, time_periods, capVars,
                 moveVars, scenarios, result>>

\* ------------------------------------------------- _build_multi_turn_tree
\* lines 261-286: all game paths, as lists of (period, player_idx, move)
RECURSIVE generate_paths(_, _)
generate_paths(period, prefix) ==
  IF period >= time_periods THEN <<prefix>>
  ELSE LET opp_combos == Product(OpponentOptions(period))
       IN CASE Evaluated(opp_combos) /\ Evaluated(prefix) ->
          Flatten([a \in 1..Len(action_set) |->
            Flatten([c \in 1..Len(opp_combos) |->
              generate_paths(period + 1,
                prefix \o << <<period, 0, action_set[a]>> >>
                       \o [o \in 1..Len(opp_combos[c]) |->
                             <<period, o, opp_combos[c][o]>>])])])

\* scenario_scores.get(scenario_id, 0.5)
GetScore(scenario_scores, key) ==
  IF key \in DOMAIN scenario_scores THEN scenario_scores[key] ELSE DEFAULT_SCORE

\* tuple(path) as a dict key: the model writes the tuple out as a string, one
\* "(period,player,move)" per entry, so that equal keys are equal paths
RECURSIVE TupleKey(_)
TupleKey(path) ==
  IF path = <<>> THEN ""
  ELSE "(" \o ToString(Head(path)[1]) \o "," \o ToString(Head(path)[2]) \o ","
           \o Head(path)[3] \o ")" \o TupleKey(Tail(path))

\* lines 291-295: path_scores[tuple(path)] = score of s<idx>, assigned in
\* index order, so a path keeps the score of the last index that holds it
MapPathScores(all_paths, scenario_scores) ==
  LET path_keys == [n \in 1..Len(all_paths) |-> TupleKey(all_paths[n])]
  IN CASE Evaluated(path_keys) ->
     [key \in Range(path_keys) |->
        GetScore(scenario_scores,
                 ScenarioId(SetMax({n \in 1..Len(path_keys) : path_keys[n] = key}) - 1))]

\* lines 308-327: the leaf of a finished path
LeafNode(st, period, parent_id, score) ==
  LET leaf_id == NodeId(st.counter)
      leaf == TreeNode(leaf_id, "Final: " \o Fmt2(score), None, Some(parent_id),
                       Some(score), Some(period - 1), DefaultFlag, TRUE, DefaultFlag)
  IN [nodes |-> AppendChild(PutNode(st.nodes, leaf), parent_id, leaf_id),
      counter |-> st.counter + 1,
      score |-> score]

\* a move node that records every move as one of player 0
MoveNodeOfPlayerZero(st, label, player_index, parent_id, period, is_max_node) ==
  LET node_id == NodeId(st.counter)
      node == TreeNode(node_id, label, Some(0), Some(parent_id), None,
                       Some(period), DefaultFlag, DefaultFlag, is_max_node)
  IN [nodes |-> AppendChild(PutNode(st.nodes, node), parent_id, node_id),
      counter |-> st.counter + 1]

\* lines 334-347 and 383-396: a move node, linked under its parent
MoveNode(st, label, player_index, parent_id, period, is_max_node) ==
  LET node_id == NodeId(st.counter)
      node == TreeNode(node_id, label, Some(player_index), Some(parent_id), None,
                       Some(period), DefaultFlag, DefaultFlag, is_max_node)
  IN [nodes |-> AppendChild(PutNode(st.nodes, node), parent_id, node_id),
      counter |-> st.counter + 1]

\* the is_max_node flag the builder gives a move node (lines 344 and 393)
MaxTurnNodeFlag == FALSE
MinTurnNodeFlag == TRUE

\* lines 298-424. st is the controller's (tree_nodes, node_counter); the
\* result carries them after the call together with the returned score.
RECURSIVE build_subtree(_, _, _, _, _, _, _)
RECURSIVE MaxTurn(_, _, _, _, _, _, _)
RECURSIVE MinTurn(_, _, _, _, _, _, _, _)

\* the loop of lines 333-363 from its m-th move on
MaxTurn(st, path_scores, period, parent_id, path_prefix, m, best_score) ==
  IF m > Len(action_set)
  THEN [nodes |-> st.nodes, counter |-> st.counter, score |-> best_score]
  ELSE LET move == action_set[m]
           made == MoveNode(st, move, 0, parent_id, period, MaxTurnNodeFlag)
           node_id == NodeId(st.counter)
           sub == build_subtree(made, path_scores, period, FALSE, node_id,
                                Append(path_prefix, <<period, 0, move>>), 0)
           after == [nodes |-> SetScore(sub.nodes, node_id, sub.score),
                     counter |-> sub.counter]
           best == PyMax(best_score, sub.score)
       IN IF Evaluated(after.counter) /\ Evaluated(best)
          THEN MaxTurn(after, path_scores, period, parent_id, path_prefix, m + 1, best)
          ELSE after

\* the loop of lines 382-424 from its m-th move on
MinTurn(st, path_scores, period, parent_id, path_prefix, opponent_idx, m, worst_score) ==
  LET opp_moves == opponent_moves_by_period[period + 1][opponent_idx + 1] IN
  IF m > Len(opp_moves)
  THEN [nodes |-> st.nodes, counter |-> st.counter, score |-> worst_score]
  ELSE LET move == opp_moves[m]
           made == MoveNode(st, move, opponent_idx + 1, parent_id, period,
                            MinTurnNodeFlag)
           node_id == NodeId(st.counter)
           new_prefix == Append(path_prefix, <<period, opponent_idx + 1, move>>)
           sub == IF opponent_idx + 1 < num_opponents
                  THEN build_subtree(made, path_scores, period, FALSE, node_id,
                                     new_prefix, opponent_idx + 1)
                  ELSE build_subtree(made, path_scores, period + 1, TRUE, node_id,
                                     new_prefix, 0)
           after == [nodes |-> SetScore(sub.nodes, node_id, sub.score),
                     counter |-> sub.counter]
           worst == PyMin(worst_score, sub.score)
       IN IF Evaluated(after.counter) /\ Evaluated(worst)
          THEN MinTurn(after, path_scores, period, parent_id, path_prefix,
                       opponent_idx, m + 1, worst)
          ELSE after

build_subtree(st, path_scores, period, is_max_turn, parent_id, path_prefix, opponent_idx) ==
  IF period >= time_periods
  THEN LeafNode(st, period, parent_id, GetScore(path_scores, TupleKey(path_prefix)))
  ELSE IF is_max_turn
  THEN MaxTurn(st, path_scores, period, parent_id, path_prefix, 1, 0 - INF)
  ELSE IF num_opponents = 0
  THEN build_subtree(st, path_scores, period + 1, TRUE, parent_id, path_prefix, 0)
  ELSE MinTurn(st, path_scores, period, parent_id, path_prefix, opponent_idx, 1, INF)

\* a best-move loop that compares with >=, so that the last of several equal
\* children wins
RECURSIVE FindBestMoveLastWins(_, _, _, _, _)
FindBestMoveLastWins(nodes, root_id, c, best_child_score, best_move) ==
  IF c > Len(nodes[root_id].children) THEN best_move
  ELSE LET child == nodes[nodes[root_id].children[c]] IN
       IF child.score # None /\ child.score[1] >= best_child_score
       THEN FindBestMoveLastWins(nodes, root_id, c + 1, child.score[1], child.label)
       ELSE FindBestMoveLastWins(nodes, root_id, c + 1, best_child_score, best_move)

\* a best-move loop that walks one level too deep: it reports the label of the
\* first node under the root's first child
FindBestMoveBelowChild(nodes, root_id, c, best_child_score, best_move) ==
  LET kids == nodes[root_id].children IN
  IF kids = <<>> \/ nodes[kids[1]].children = <<>> THEN best_move
  ELSE nodes[nodes[kids[1]].children[1]].label

\* lines 437-447 (and 302-312 of the max-n builder): the loop over the root's
\* children, from the c-th child on
RECURSIVE FindBestMove(_, _, _, _, _)
FindBestMove(nodes, root_id, c, best_child_score, best_move) ==
  IF c > Len(nodes[root_id].children) THEN best_move
  ELSE LET child == nodes[nodes[root_id].children[c]] IN
       IF child.score # None /\ child.score[1] > best_child_score
       THEN FindBestMove(nodes, root_id, c + 1, child.score[1], child.label)
       ELSE FindBestMove(nodes, root_id, c + 1, best_child_score, best_move)

\* lines 426-447: build from the root, store the root score, pick the move
_build_multi_turn_tree(st, root_id, scenario_scores) ==
  LET all_paths == generate_paths(0, <<>>)
      path_scores == MapPathScores(all_paths, scenario_scores)
      built == build_subtree(st, path_scores, 0, TRUE, root_id, <<>>, 0)
      nodes == SetScore(built.nodes, root_id, built.score)
  IN CASE Evaluated(path_scores) /\ Evaluated(nodes) ->
     [nodes |-> nodes,
      counter |-> built.counter,
      best_move |-> FindBestMove(nodes, root_id, 1, 0 - INF,
                                 IF action_set # <<>> THEN action_set[1] ELSE "No move")]

\* lines 630 and 377: self.tree_nodes[root_id].score or 0.5
ScoreOrDefault(score) ==
  IF score = None \/ score = Some(0) THEN DEFAULT_SCORE ELSE score[1]

\* a builder that starts as soon as one batch of scores has been merged
BuildTreeEarly ==
  /\ pc = "scoring"
  /\ engine = "minimax"
  /\ score_calls >= 1
  /\ \E built \in {_build_multi_turn_tree([nodes |-> tree_nodes, counter |-> node_counter],
                                          NodeId(0), all_scores)} :
        /\ tree_nodes' = built.nodes
        /\ node_counter' = built.counter
        /\ \E returned \in {[best_score |-> ScoreOrDefault(built.nodes[NodeId(0)].score),
                              best_move |-> built.best_move,
                              time_periods |-> time_periods]} :
             /\ result' = Some(returned)
             /\ first_return' = IF oracle_mode = "mock" /\ calls = 1
                                THEN Some([tree |-> built.nodes, result |-> returned])
                                ELSE first_return
  /\ pc' = "done"
  /\ UNCHANGED <<controllerVars, calls, argVars, time_periods, capVars, moveVars,
                 scoreVars, oracleVars>>

\* lines 620-633: build the tree and return
BuildTree ==
  /\ pc = "scoring"
  /\ engine = "minimax"
  /\ batch_index >= Len(scenarios)
  /\ \E built \in {_build_multi_turn_tree([nodes |-> tree_nodes, counter |-> node_counter],
                                          NodeId(0), all_scores)} :
        /\ tree_nodes' = built.nodes
        /\ node_counter' = built.counter
        /\ \E returned \in {[best_score |-> ScoreOrDefault(built.nodes[NodeId(0)].score),
                              best_move |-> built.best_move,
                              time_periods |-> time_periods]} :
             /\ result' = Some(returned)
             /\ first_return' = IF oracle_mode = "mock" /\ calls = 1
                                THEN Some([tree |-> built.nodes, result |-> returned])
                                ELSE first_return
  /\ pc' = "done"
  /\ UNCHANGED <<controllerVars, calls, argVars, time_periods, capVars, moveVars,
                 scoreVars, oracleVars>>

\* ===================================================== MaxNController
\* lines 331-346 of run_a_period_search: reset and root. A max-n search covers
\* one period; the model records that in time_periods.
MaxNRootNode ==
  TreeNode(NodeId(0), time_period_unit, None, None, None, DefaultTimePeriod,
           DefaultFlag, DefaultFlag, DefaultFlag)

CallMaxN ==
  /\ pc = "idle"
  /\ engine = "maxn"
  /\ calls = 0
  /\ \E acts \in ActionSets, m \in 1..MaxMoves :
       /\ LeafCount(Len(acts), m, num_opponents, 1) <= MaxLeaves
       /\ action_set' = acts
       /\ moves_per_opponent' = m
  /\ calls' = calls + 1
  /\ requested_periods' = 1
  /\ time_periods' = 1
  /\ DirectCall
  /\ tree_nodes' = PutNode(EmptyDict, MaxNRootNode)
  /\ node_counter' = 1
  /\ opponent_moves_by_period' = <<>>
  /\ period_moves' = <<>>
  /\ move_calls' = 0
  /\ scenarios' = <<>>
  /\ all_scores' = EmptyDict
  /\ batch_index' = 0
  /\ score_calls' = 0
  /\ score_batches' = <<>>
  /\ last_response' = None
  /\ oracle_faults' = 0
  /\ result' = None
  /\ pc' = "moves"
  /\ UNCHANGED <<oracle_log, first_return>>
  /\ UNCHANGED <<controllerVars, capVars>>

\* lines 126-146 of MaxNController._generate_opponent_moves. A "moves" value
\* that is no list and no string (a number) cannot be sliced: the call raises.
\* A string is sliced (line 132); when it has num_moves characters or more
\* the loop of line 141 is skipped and the call returns the sliced string,
\* when it is shorter line 142 raises (a string has no append).
RECURSIVE PadAlternatives(_, _)
PadAlternatives(moves, num_moves) ==
  IF Len(moves) < num_moves
  THEN PadAlternatives(Append(moves, "Alternative " \o ToString(Len(moves) + 1)), num_moves)
  ELSE moves

MaxNStrategies(num_moves) == [i \in 1..num_moves |-> "Strategy " \o ToString(i)]

MaxNVariants(base_move, num_moves) ==
  <<base_move>>
    \o (IF num_moves > 1 THEN <<"Aggressive variant: " \o base_move>> ELSE <<>>)
    \o (IF num_moves > 2 THEN <<"Defensive variant: Focus on core business">> ELSE <<>>)

maxn_generate_opponent_moves(response, num_moves) ==
  LET moves == IF TruthyDict(response)
               THEN IF response.has_selected
                    THEN MaxNVariants(response.selected_move, num_moves)
                    ELSE IF response.has_moves
                    THEN Slice(response.moves, 0, num_moves)
                    ELSE MaxNStrategies(num_moves)
               ELSE MaxNStrategies(num_moves)
      unlisted == /\ TruthyDict(response)
                  /\ ~response.has_selected
                  /\ response.has_moves
                  /\ ~response.moves_is_list
  IN [raises |-> unlisted /\ (response.moves = <<>> \/ Len(response.moves) < num_moves),
      moves |-> IF unlisted
                THEN Text(Len(moves))
                ELSE Slice(PadAlternatives(moves, num_moves), 0, num_moves)]

\* lines 350-356: one pass of the loop over the opponents
MaxNGenerateMoves ==
  /\ pc = "moves"
  /\ engine = "maxn"
  /\ Len(period_moves) < num_opponents
  /\ \E answer \in MoveAnswers(moves_per_opponent) :
     \E made \in {maxn_generate_opponent_moves(answer, moves_per_opponent)} :
       /\ last_response' = Some(answer)
       /\ oracle_log' = oracle_log
       /\ oracle_faults' = oracle_faults + MoveFault(answer, moves_per_opponent)
       /\ IF made.raises
          THEN pc' = "raised" /\ UNCHANGED period_moves
          ELSE pc' = pc /\ period_moves' = Append(period_moves, made.moves)
  /\ move_calls' = move_calls + 1
  /\ UNCHANGED <<controllerVars, treeVars, calls, argVars, time_periods, capVars,
                 opponent_moves_by_period, scoreVars, result>>

\* lines 148-163: _generate_all_scenarios
_generate_all_scenarios(player0_moves, all_opponent_moves) ==
  NumberScenarios(Product(<<player0_moves>> \o MoveLists(all_opponent_moves)))

MaxNEnumerate ==
  /\ pc = "moves"
  /\ engine = "maxn"
  /\ Len(period_moves) >= num_opponents
  /\ scenarios' = _generate_all_scenarios(action_set, period_moves)
  /\ pc' = "scoring"
  /\ UNCHANGED <<controllerVars, treeVars, calls, argVars, time_periods, capVars,
                 moveVars, all_scores, batch_index, score_calls, score_batches,
                 oracleVars, result>>

\* lines 200-218 of _batch_evaluate_scenarios: one call for all scenarios
MaxNEvaluate ==
  /\ pc = "scoring"
  /\ engine = "maxn"
  /\ score_calls = 0
  /\ \E answer \in ScoreAnswers(scenarios, 0) :
     \E scores \in {_evaluate_scenario_chunk(answer, scenarios)} :
       /\ last_response' = Some(answer)
       /\ oracle_log' = oracle_log
       /\ oracle_faults' = IF answer \in WellFormedScores(scenarios, 0)
                            THEN oracle_faults ELSE oracle_faults + 1
       /\ IF scores.raises
          THEN pc' = "raised" /\ UNCHANGED all_scores
          ELSE pc' = pc /\ all_scores' = scores.scores
  /\ score_batches' = Append(score_batches, ScenarioIdsOf(scenarios))
  /\ score_calls' = score_calls + 1
  /\ UNCHANGED <<controllerVars, treeVars, calls, argVars, time_periods, capVars,
                 moveVars, scenarios, batch_index, result>>

\* a tuple of labels as a dict key, written out as a string
RECURSIVE ComboKey(_)
ComboKey(combo) ==
  IF combo = <<>> THEN "" ELSE "(" \o Head(combo) \o ")" \o ComboKey(Tail(combo))

\* lines 230-235: scenario_map[combo] = score of s<idx>, in index order
MapScenarios(all_moves, scenario_scores) ==
  LET combo_keys == [n \in 1..Len(Product(all_moves)) |-> ComboKey(Product(all_moves)[n])]
  IN CASE Evaluated(combo_keys) ->
     [key \in Range(combo_keys) |->
        GetScore(scenario_scores,
                 ScenarioId(SetMax({n \in 1..Len(combo_keys) : combo_keys[n] = key}) - 1))]

\* lines 245-262: the leaf of a complete combination
MaxNLeafNode(st, parent_id, score) ==
  LET leaf_id == NodeId(st.counter)
      leaf == TreeNode(leaf_id, "Score: " \o Fmt2(score), None, Some(parent_id),
                       Some(score), DefaultTimePeriod, DefaultFlag, DefaultFlag,
                       DefaultFlag)
  IN [nodes |-> AppendChild(PutNode(st.nodes, leaf), parent_id, leaf_id),
      counter |-> st.counter + 1,
      score |-> score]

\* lines 270-280: a move node, linked under its parent
MaxNMoveNode(st, label, player_index, parent_id) ==
  LET node_id == NodeId(st.counter)
      node == TreeNode(node_id, label, Some(player_index), Some(parent_id), None,
                       DefaultTimePeriod, DefaultFlag, DefaultFlag, DefaultFlag)
  IN [nodes |-> AppendChild(PutNode(st.nodes, node), parent_id, node_id),
      counter |-> st.counter + 1]

\* a builder that minimises on every layer, player 0's included
MaxNCombineAlwaysMin(player_index, best_score, child_score) ==
  PyMin(best_score, child_score)

\* lines 291-294: max for player 0, min for the opponents
MaxNCombine(player_index, best_score, child_score) ==
  IF player_index = 0 THEN PyMax(best_score, child_score)
  ELSE PyMin(best_score, child_score)

\* lines 238-296 of _build_tree_with_scores
RECURSIVE maxn_build_subtree(_, _, _, _, _, _)
RECURSIVE MaxNLoop(_, _, _, _, _, _, _, _)

MaxNLoop(st, scenario_map, all_moves, player_index, parent_id, move_prefix, m, best_score) ==
  IF m > Len(all_moves[player_index + 1])
  THEN [nodes |-> st.nodes, counter |-> st.counter, score |-> best_score]
  ELSE LET move == all_moves[player_index + 1][m]
           made == MaxNMoveNode(st, move, player_index, parent_id)
           node_id == NodeId(st.counter)
           sub == maxn_build_subtree(made, scenario_map, all_moves, player_index + 1,
                                     node_id, Append(move_prefix, move))
           after == [nodes |-> SetScore(sub.nodes, node_id, sub.score),
                     counter |-> sub.counter]
           best == MaxNCombine(player_index, best_score, sub.score)
       IN IF Evaluated(after.counter) /\ Evaluated(best)
          THEN MaxNLoop(after, scenario_map, all_moves, player_index, parent_id,
                        move_prefix, m + 1, best)
          ELSE after

maxn_build_subtree(st, scenario_map, all_moves, player_index, parent_id, move_prefix) ==
  IF player_index >= Len(player_profiles)
  THEN MaxNLeafNode(st, parent_id, GetScore(scenario_map, ComboKey(move_prefix)))
  ELSE MaxNLoop(st, scenario_map, all_moves, player_index, parent_id, move_prefix, 1,
                IF player_index = 0 THEN 0 - INF ELSE INF)

\* lines 229-312: map the scores, build from the root, pick the move
_build_tree_with_scores(st, root_id, player0_moves, all_opponent_moves, scenario_scores) ==
  LET all_moves == <<player0_moves>> \o MoveLists(all_opponent_moves)
      scenario_map == MapScenarios(all_moves, scenario_scores)
      built == maxn_build_subtree(st, scenario_map, all_moves, 0, root_id, <<>>)
      nodes == SetScore(built.nodes, root_id, built.score)
  IN CASE Evaluated(all_moves) /\ Evaluated(scenario_map) /\ Evaluated(nodes) ->
     [nodes |-> nodes,
      counter |-> built.counter,
      best_move |-> FindBestMove(nodes, root_id, 1, 0 - INF,
                                 IF player0_moves # <<>> THEN player0_moves[1]
                                 ELSE "No move")]

\* lines 368-379: build the tree and return
MaxNBuild ==
  /\ pc = "scoring"
  /\ engine = "maxn"
  /\ score_calls > 0
  /\ \E built \in {_build_tree_with_scores([nodes |-> tree_nodes, counter |-> node_counter],
                                          NodeId(0), action_set, period_moves,
                                          all_scores)} :
        /\ tree_nodes' = built.nodes
        /\ node_counter' = built.counter
        /\ result' = Some([best_score |-> ScoreOrDefault(built.nodes[NodeId(0)].score),
                           best_move |-> built.best_move,
                           time_periods |-> time_periods])
  /\ first_return' = first_return
  /\ pc' = "done"
  /\ UNCHANGED <<controllerVars, calls, argVars, time_periods, capVars, moveVars,
                 scoreVars, oracleVars>>

\* ===================================================== /wargame/run
\* What the strategy agent hands back when the request carries no action_set:
\* None, a value that is no object, an object without "moves", or a list.
StrategyAnswers ==
  {MoveResponse("none", FALSE, FALSE, FALSE, <<>>, FALSE, ""),
   MoveResponse("nondict", FALSE, FALSE, FALSE, <<>>, FALSE, ""),
   MoveResponse("dict", TRUE, FALSE, FALSE, <<>>, FALSE, "")}
    \cup {MovesAnswer(DistinctActions(n)) : n \in 0..MaxActions}

\* lines 107-124: action_set = result.get("moves", []) of a truthy dict
StrategyMoves(answer) ==
  IF TruthyDict(answer) /\ answer.has_moves THEN answer.moves ELSE <<>>

\* run_wargame (lines 53-165) is a coroutine: it gives the event loop back at
\* `await get_strategy_agent` (line 109) and at `await get_minimax_controller`
\* (line 134), which awaits Agent.initialize, i.e. the session service's
\* create_session, once for the strategy agent (deps.py 13) and twice for
\* the controller (deps.py 46 and 47). Between two of these points a request
\* runs alone; at each of them the steps of other requests may fall. The
\* requests share no state. A request states its time_periods.
RouteStep(r, stage) ==
  /\ pc = "idle"
  /\ engine = "minimax"
  /\ calls = 0
  /\ num_opponents = DEFAULT_PLAYERS - 1
  /\ requests[r].stage = stage
  /\ UNCHANGED <<controllerVars, treeVars, pc, calls, action_set, requested_periods,
                 moves_per_opponent, time_periods, capVars, moveVars, scoreVars,
                 oracleVars, result>>

\* What lines 56-106 need of a request to get through. Line 57 reads
\* settings.TIME_PERIODS, which core/config.py does not declare, when the
\* request states no time_periods. Lines 75-82 build the user company when
\* the request has none, and generate_opponent_profiles (lines 38-47) builds
\* the opponents it lacks up to DEFAULT_PLAYERS - 1, both with
\* CompanyProfile(id=, name=, business_goal=, about_us=, customers=,
\* isUserCompany=); the CompanyProfile of schemas.py requires business_type,
\* company_size, products and target_customers, so building one raises.
\* user_company says that the request holds a profile flagged isUserCompany;
\* a profile without that field, as schemas.py's CompanyProfile is, raises at
\* line 68.
RequestShapes ==
  [periods_stated : BOOLEAN, user_company : BOOLEAN, opponents : 0..DEFAULT_PLAYERS]

ReadsThrough(shape) ==
  /\ shape.periods_stated
  /\ shape.user_company
  /\ shape.opponents >= DEFAULT_PLAYERS - 1

\* lines 53-109 or 53-134: read the request and complete the profiles to
\* DEFAULT_PLAYERS players; answer 500 when that raises (line 161), otherwise
\* wait for the strategy agent when the request has no action_set, for the
\* controller's evaluator agent when it has one
RunWargameReceive ==
  \E r \in RequestIds, req \in ActionSets, shape \in RequestShapes :
    \E stage \in {IF ~ReadsThrough(shape) THEN "raised"
                  ELSE IF req = <<>> THEN "strategy" ELSE "evaluator"} :
      /\ RouteStep(r, "new")
      /\ requests' = [requests EXCEPT ![r] =
           [stage |-> stage, request_action_set |-> Some(req), action_set |-> req]]

\* lines 110-134: the strategy agent is there: ask it, answer 400 when there
\* still is no action set, otherwise wait for the evaluator agent
RunWargameStrategy ==
  \E r \in RequestIds, answer \in StrategyAnswers :
    \E stage \in {IF StrategyMoves(answer) = <<>> THEN "rejected" ELSE "evaluator"} :
      /\ RouteStep(r, "strategy")
      /\ requests' = [requests EXCEPT ![r].stage = stage,
                                      ![r].action_set = StrategyMoves(answer)]

\* deps.py 46-47: the evaluator agent is there, wait for the opponent agent
RunWargameEvaluator ==
  \E r \in RequestIds :
    /\ RouteStep(r, "evaluator")
    /\ requests' = [requests EXCEPT ![r].stage = "opponent"]

\* deps.py 47-54 and lines 141-165: the opponent agent is there; the
\* controller is built and run_minimax_search is called without
\* moves_per_opponent. Its line 466 reads settings.MOVES_PER_PLAYER, a field
\* the Settings class of core/config.py does not declare: the read raises
\* before the search starts and the route answers 500.
RunWargameSearch ==
  \E r \in RequestIds :
    /\ RouteStep(r, "opponent")
    /\ requests' = [requests EXCEPT ![r].stage = "raised"]

NextPlan == CallMinimaxPlan \/ CapLoop \/ CapExit

SpecPlan == InitPlan /\ [][NextPlan]_vars

\* the interpreter runs the planner's next step whenever there is one
FairSpecPlan == SpecPlan /\ WF_vars(NextPlan)

\* ---------------------------------------------- searches of many scenarios
InitBatch == InitController("minimax", 1)

CallMinimaxBatch ==
  /\ calls = 0
  /\ \E n \in BatchActionCounts, t \in BatchPeriods :
       EnterMinimax(DistinctActions(n), t, 1)
  /\ DirectCall

NextBatch ==
  \/ CallMinimaxBatch
  \/ CapLoop
  \/ CapExit
  \/ ResetTree
  \/ GenerateOpponentMoves
  \/ EndPeriod
  \/ EnumerateScenarios
  \/ EvaluateBatch
  \/ BuildTree

SpecBatch == InitBatch /\ [][NextBatch]_vars

\* -------------------------------------------- searches the cap cuts short
InitWide == \E k \in 0..1 : InitController("minimax", k)

CallMinimaxWide ==
  /\ calls = 0
  /\ \E n \in WideActionCounts, m \in WideMoves, t \in WidePeriods :
       /\ n * m = 39
       /\ EnterMinimax(DistinctActions(n), t, m)
  /\ DirectCall

NextWide ==
  \/ CallMinimaxWide
  \/ CapLoop
  \/ CapExit
  \/ ResetTree
  \/ GenerateOpponentMoves
  \/ EndPeriod
  \/ EnumerateScenarios
  \/ EvaluateBatch
  \/ BuildTree

SpecWide == InitWide /\ [][NextWide]_vars

\* ------------------------------------- two searches on one controller
InitTwice == \E k \in 0..1 : InitHarness("minimax", k, "mock")

CallMinimaxFirst ==
  /\ calls = 0
  /\ \E acts \in ActionSets, t \in 0..MaxPeriods, m \in 1..MaxMoves :
       /\ LeafCount(Len(acts), m, num_opponents, t) <= TwiceMaxLeaves
       /\ EnterMinimax(acts, t, m)
  /\ DirectCall

\* run_minimax_search called again on the controller that has returned, with
\* the arguments of the first call
CallMinimaxAgain ==
  /\ pc = "done"
  /\ calls = 1
  /\ oracle_mode = "mock"
  /\ EnterMinimax(action_set, requested_periods, moves_per_opponent)
  /\ requests' = requests

NextTwice ==
  \/ CallMinimaxFirst
  \/ CapLoop
  \/ CapExit
  \/ ResetTree
  \/ GenerateOpponentMoves
  \/ EndPeriod
  \/ EnumerateScenarios
  \/ EvaluateBatch
  \/ BuildTree
  \/ CallMinimaxAgain

SpecTwice == InitTwice /\ [][NextTwice]_vars

\* ------------------------------------------- searches through every stage
InitOrder == InitController("minimax", 1)

CallMinimaxOrder ==
  /\ calls = 0
  /\ \E n \in OrderActionCounts, t \in BatchPeriods :
       EnterMinimax(DistinctActions(n), t, 1)
  /\ DirectCall

NextOrder ==
  \/ CallMinimaxOrder
  \/ CapLoop
  \/ CapExit
  \/ ResetTree
  \/ GenerateOpponentMoves
  \/ EndPeriod
  \/ EnumerateScenarios
  \/ EvaluateBatch
  \/ BuildTree

SpecOrder == InitOrder /\ [][NextOrder]_vars

\* ------------------------------- a search after another, arguments differing
InitAgain == \E k \in 0..1 : InitController("minimax", k)

\* the earlier search: at least two actions over at least one period, so its
\* tree has five nodes or more
CallMinimaxEarlier ==
  /\ calls = 0
  /\ \E acts \in ActionSets, t \in 1..MaxPeriods, m \in 1..MaxMoves :
       /\ Len(acts) >= 2
       /\ LeafCount(Len(acts), m, num_opponents, t) <= TwiceMaxLeaves
       /\ EnterMinimax(acts, t, m)
  /\ DirectCall

\* the later search, with any arguments
CallMinimaxLater ==
  /\ pc = "done"
  /\ calls = 1
  /\ \E acts \in ActionSets, t \in 0..MaxPeriods, m \in 1..MaxMoves :
       /\ LeafCount(Len(acts), m, num_opponents, t) <= TwiceMaxLeaves
       /\ EnterMinimax(acts, t, m)
  /\ DirectCall

NextAgain ==
  \/ CallMinimaxEarlier
  \/ CallMinimaxLater
  \/ CapLoop
  \/ CapExit
  \/ ResetTree
  \/ GenerateOpponentMoves
  \/ EndPeriod
  \/ EnumerateScenarios
  \/ EvaluateBatch
  \/ BuildTree

SpecAgain == InitAgain /\ [][NextAgain]_vars

Next ==
  \/ CallMinimax
  \/ CapLoop
  \/ CapExit
  \/ ResetTree
  \/ GenerateOpponentMoves
  \/ EndPeriod
  \/ EnumerateScenarios
  \/ EvaluateBatch
  \/ BuildTree
  \/ CallMaxN
  \/ MaxNGenerateMoves
  \/ MaxNEnumerate
  \/ MaxNEvaluate
  \/ MaxNBuild
  \/ RunWargameReceive
  \/ RunWargameStrategy
  \/ RunWargameEvaluator
  \/ RunWargameSearch

Spec == Init /\ [][Next]_vars

\* ================================================================ claims
\* helpers of the claim formulas
SetMin(S) == CHOOSE x \in S : \A y \in S : x <= y
ChildScores(id) == {tree_nodes[c].score[1] : c \in Range(tree_nodes[id].children)}
MinimaxReturned == pc = "done" /\ engine = "minimax"

\* C1: with a non-empty action set, at least one opponent and requested
\* periods >= 1, the best_move run_minimax_search returns is an element of the
\* caller's action_set, whatever the oracles answered.
C1_BestMoveFromActionSet ==
  (MinimaxReturned /\ action_set # <<>> /\ num_opponents >= 1 /\ requested_periods >= 1)
    => result[1].best_move \in Range(action_set)

\* a search with a faulty oracle answer that returned its second action
C1_Witness ==
  /\ MinimaxReturned
  /\ num_opponents >= 1
  /\ requested_periods >= 1
  /\ oracle_faults > 0
  /\ Len(action_set) >= 2
  /\ action_set[2] # action_set[1]
  /\ result[1].best_move = action_set[2]

\* C2: in the tree run_minimax_search returns, every node with children has
\* the maximum of its children's scores when its is_max_node flag is true and
\* their minimum otherwise, for every number of opponents and of periods.
C2_ScoreFollowsFlag ==
  (MinimaxReturned /\ time_periods >= 1)
    => \A id \in DOMAIN tree_nodes :
         tree_nodes[id].children # <<>>
           => tree_nodes[id].score =
                Some(IF tree_nodes[id].is_max_node
                     THEN SetMax(ChildScores(id)) ELSE SetMin(ChildScores(id)))

\* C3: after either search with a non-empty action set, the root's score is
\* the maximum of the scores of the root's direct children.
C3_RootScoreIsMaxOfChildren ==
  (pc = "done" /\ action_set # <<>> /\ time_periods >= 1)
    => tree_nodes[NodeId(0)].score = Some(SetMax(ChildScores(NodeId(0))))

\* a three-period minimax tree whose root has children of different scores
C3_Witness ==
  /\ MinimaxReturned
  /\ time_periods = 3
  /\ Cardinality(ChildScores(NodeId(0))) >= 2
  /\ tree_nodes[NodeId(0)].score = Some(SetMax(ChildScores(NodeId(0))))

\* C4: the enumeration lists the whole product in lexicographic order, period
\* 0's action most significant, then period 0's opponents in profile order,
\* then period 1 and so on; the i-th path gets the id s<i> from s0; actions
\* {A,B}, one opponent with moves {X,Y} and one period give [A,X],[A,Y],[B,X],
\* [B,Y] as s0..s3.
PathPositions == PyMax(time_periods, 0) * (num_opponents + 1)
PositionPeriod(q) == (q - 1) \div (num_opponents + 1)
PositionPlayer(q) == (q - 1) % (num_opponents + 1)
PositionOptions(q) ==
  IF PositionPlayer(q) = 0 THEN action_set
  ELSE opponent_moves_by_period[PositionPeriod(q) + 1][PositionPlayer(q)]

\* the number of paths that share the choices of positions 1..q
RECURSIVE PositionWeight(_)
PositionWeight(q) ==
  IF q >= PathPositions THEN 1
  ELSE Len(PositionOptions(q + 1)) * PositionWeight(q + 1)

LexicographicPath(idx) ==
  [q \in 1..PathPositions |->
     [period |-> PositionPeriod(q) + 1,
      player |-> player_profiles[PositionPlayer(q) + 1],
      move |-> PositionOptions(q)[((idx \div PositionWeight(q))
                                     % Len(PositionOptions(q))) + 1]]]

PathLabels(path) == [q \in 1..Len(path) |-> path[q].move]
Enumerated == engine = "minimax" /\ calls > 0 /\ pc \in {"scoring", "done", "raised"}
ExampleEnumeration ==
  /\ Enumerated
  /\ action_set = <<"A", "B">>
  /\ num_opponents = 1
  /\ time_periods = 1
  /\ opponent_moves_by_period = << << <<"X", "Y">> >> >>

C4_LexicographicEnumeration ==
  /\ Enumerated
       => /\ Len(scenarios) = PositionWeight(0)
          /\ \A n \in 1..Len(scenarios) :
               scenarios[n] = [id |-> "s" \o ToString(n - 1),
                               path |-> LexicographicPath(n - 1)]
  /\ ExampleEnumeration
       => [n \in 1..Len(scenarios) |-> PathLabels(scenarios[n].path)]
            = << <<"A", "X">>, <<"A", "Y">>, <<"B", "X">>, <<"B", "Y">> >>

\* the example's enumeration, numbered s0..s3
C4_Witness ==
  /\ ExampleEnumeration
  /\ Len(scenarios) = 4
  /\ scenarios[4].id = "s3"
  /\ PathLabels(scenarios[4].path) = <<"B", "Y">>

\* the branching factor and the period count the planner is specified to use
BranchingFactor == Len(action_set) * Pow(moves_per_opponent, num_opponents)

\* b^e, no longer multiplied once it is over the ceiling
RECURSIVE CappedPow(_, _)
CappedPow(b, e) ==
  IF e = 0 THEN 1
  ELSE LET r == CappedPow(b, e - 1) IN IF r > MAX_SCENARIOS THEN r ELSE r * b

LargestFeasible(b, requested) ==
  IF b > MAX_SCENARIOS THEN 1
  ELSE SetMax({p \in 1..requested : CappedPow(b, p) <= MAX_SCENARIOS})

Planned == engine = "minimax" /\ pc = "reset"

\* C5: with at least one opponent, b = |action_set| * moves_per_opponent^k
\* >= 2 and requested periods >= 1, the periods used are the largest
\* p <= requested with b^p <= 1500, or 1 when b > 1500.
C5_PeriodsUsed ==
  (Planned /\ num_opponents >= 1 /\ BranchingFactor >= 2 /\ requested_periods >= 1)
    => time_periods = LargestFeasible(BranchingFactor, requested_periods)

\* a horizon cut down to three periods
C5_Witness ==
  /\ Planned
  /\ num_opponents >= 1
  /\ BranchingFactor >= 2
  /\ requested_periods > 3
  /\ time_periods = 3

\* C6 as stated: with b = 6 and requested periods = 6 the horizon is reduced
\* to 5.
C6_ReducedToFive ==
  (Planned /\ num_opponents >= 1 /\ BranchingFactor = 6 /\ requested_periods = 6)
    => time_periods = 5

\* C6, amended: with b = 6 from at least one opponent and requested
\* periods = 6 the horizon is reduced to 4, since 6^4 = 1296 <= 1500 < 6^5.
C6_ReducedToFour ==
  (Planned /\ num_opponents >= 1 /\ BranchingFactor = 6 /\ requested_periods = 6)
    => time_periods = 4

\* three actions, one opponent with two moves, six periods requested
C6_Witness ==
  /\ Planned
  /\ Len(action_set) = 3
  /\ num_opponents = 1
  /\ moves_per_opponent = 2
  /\ requested_periods = 6
  /\ time_periods = 4

\* C7: the cap is computed from |action_set| * moves_per_opponent^k for every
\* k; with no opponent that is |action_set|, and the periods used are the
\* largest p <= requested with |action_set|^p <= 1500, whatever
\* moves_per_opponent is.
C7_BranchingFactorForEveryK ==
  /\ (engine = "minimax" /\ pc \in {"cap", "reset"})
       => scenarios_per_period = BranchingFactor
  /\ (Planned /\ num_opponents = 0 /\ requested_periods >= 1)
       => time_periods = LargestFeasible(Len(action_set), requested_periods)

\* C8: a search called with a non-empty action set, moves_per_opponent >= 1
\* and requested periods >= 1 terminates, a branching factor of 1 included:
\* the loop that computes the period cap, the first thing the search runs,
\* comes to an end.
C8_Terminates ==
  (engine = "minimax" /\ pc = "cap" /\ action_set # <<>> /\ moves_per_opponent >= 1
     /\ requested_periods >= 1)
    ~> (pc # "cap")

\* C9: no oracle response makes a search that has started raise.
C9_NoResponseAborts == (engine = "minimax" /\ calls > 0) => pc # "raised"

\* C10: when the answer rates only some of the submitted scenarios, the ones
\* left out get 0.5, the rated ones keep the score they were given, and the
\* search returns a best_move of the action set.
ScenarioIds == {scenarios[n].id : n \in 1..Len(scenarios)}
PartialAnswer(answer) ==
  /\ answer.kind = "dict"
  /\ answer.has_scores
  /\ answer.scores_kind = "list"
  /\ \A i \in 1..Len(answer.items) :
       /\ answer.items[i].is_dict
       /\ answer.items[i].sid.t = "str"
       /\ answer.items[i].sid.v \in ScenarioIds
       /\ answer.items[i].score.t = "num"
       /\ \A j \in 1..Len(answer.items) :
            answer.items[j].sid = answer.items[i].sid => j = i
Answered(answer, id) == {i \in 1..Len(answer.items) : answer.items[i].sid.v = id}

C10_OmittedGetDefault ==
  (score_calls >= 1 /\ pc \in {"scoring", "done"} /\ requested_periods >= 1
     /\ PartialAnswer(last_response[1]))
    => /\ \A id \in ScenarioIds :
            all_scores[id] =
              IF Answered(last_response[1], id) = {} THEN DEFAULT_SCORE
              ELSE last_response[1].items[SetMax(Answered(last_response[1], id))].score.v
       /\ (pc = "done" /\ action_set # <<>>)
            => result[1].best_move \in Range(action_set)

\* C11: an empty action set is rejected with an error: run_minimax_search
\* called with one does not start searching, and the route does not replace
\* the request's empty action set by generated moves.
C11_EmptyActionSetRejected ==
  /\ (engine = "minimax" /\ calls > 0 /\ action_set = <<>>) => pc = "rejected"
  /\ \A r \in RequestIds :
       requests[r].request_action_set = Some(<<>>)
         => (requests[r].action_set = <<>>
               /\ requests[r].stage \in {"strategy", "rejected", "raised"})

\* C12: with zero opponents and one period, a non-empty action set and a
\* ScoreOracle that rates every action's scenario in (0, 1], the search
\* returns the largest of those scores and the first action that attains it;
\* "Cut Price" -> 0.3 and "Raise Quality" -> 0.8 give ("Raise Quality", 0.8).
RatedIn(answer, idx) == answer.items[SetMax(Answered(answer, ScenarioId(idx)))].score.v
EveryScenarioRated(answer) ==
  /\ PartialAnswer(answer)
  /\ \A id \in ScenarioIds : Answered(answer, id) # {}
  /\ \A i \in 1..Len(answer.items) : answer.items[i].score.v \in 1..10
SoloSearchReturned ==
  /\ MinimaxReturned
  /\ num_opponents = 0
  /\ requested_periods = 1
  /\ action_set # <<>>
  /\ EveryScenarioRated(last_response[1])
LargestRating(answer) == SetMax({RatedIn(answer, a - 1) : a \in 1..Len(action_set)})
FirstAttaining(answer) ==
  SetMin({a \in 1..Len(action_set) : RatedIn(answer, a - 1) = LargestRating(answer)})

C12_SoloSearchPicksLargest ==
  SoloSearchReturned
    => /\ result[1].best_score = LargestRating(last_response[1])
       /\ result[1].best_move = action_set[FirstAttaining(last_response[1])]
       /\ (/\ action_set = <<"Cut Price", "Raise Quality">>
           /\ RatedIn(last_response[1], 0) = 3
           /\ RatedIn(last_response[1], 1) = 8)
            => (result[1].best_move = "Raise Quality" /\ result[1].best_score = 8)

\* C13: best_move is the label of the root's direct child with the highest
\* score; of several children with that score, the first in action-set order.
RootChildren == tree_nodes[NodeId(0)].children
FirstBestChild ==
  SetMin({c \in 1..Len(RootChildren) :
            tree_nodes[RootChildren[c]].score[1] = SetMax(ChildScores(NodeId(0)))})

C13_FirstBestChildChosen ==
  (pc = "done" /\ RootChildren # <<>>)
    => result[1].best_move = tree_nodes[RootChildren[FirstBestChild]].label

\* two root children of different labels tie for the highest score
C13_Witness ==
  /\ pc = "done"
  /\ Len(RootChildren) >= 2
  /\ tree_nodes[RootChildren[1]].score = tree_nodes[RootChildren[2]].score
  /\ tree_nodes[RootChildren[1]].score[1] = SetMax(ChildScores(NodeId(0)))
  /\ tree_nodes[RootChildren[1]].label # tree_nodes[RootChildren[2]].label
  /\ result[1].best_move = tree_nodes[RootChildren[1]].label

\* C14: once _batch_evaluate_scenarios has scored N terminal scenarios it has
\* made one ScoreOracle call when N <= 100 and ceil(N/100) calls otherwise; the
\* batches are consecutive slices of at most 100 scenarios in id order, each
\* scenario is in exactly one batch, and the merged map has a score for every
\* submitted scenario id.
ScoringComplete ==
  engine = "minimax" /\ pc = "scoring" /\ batch_index >= Len(scenarios)

AllScenarioIds == [i \in 1..Len(scenarios) |-> ScenarioId(i - 1)]

C14_BatchesOfOneHundred ==
  ScoringComplete =>
    /\ score_calls = (IF Len(scenarios) <= 100 THEN 1
                      ELSE (Len(scenarios) + 99) \div 100)
    /\ Len(score_batches) = score_calls
    /\ \A b \in 1..Len(score_batches) :
         /\ Len(score_batches[b]) <= 100
         /\ b < Len(score_batches) => Len(score_batches[b]) = 100
    /\ Flatten(score_batches) = AllScenarioIds
    /\ \A i \in 1..Len(scenarios) : scenarios[i].id = ScenarioId(i - 1)
    /\ \A i \in 1..Len(scenarios) : ScenarioId(i - 1) \in DOMAIN all_scores

C14_Witness ==
  /\ ScoringComplete
  /\ Len(scenarios) = 121
  /\ score_calls = 2
  /\ Len(score_batches[1]) = 100
  /\ Len(score_batches[2]) = 21
  /\ score_batches[2][1] = ScenarioId(100)

\* C15: _generate_opponent_moves returns exactly num_moves labels whatever the
\* oracle answered: the oracle's first min(n, num_moves) labels in its order,
\* nothing beyond num_moves, and at each missing position k (1-based) the
\* placeholder "<player name> Strategy <k>".
MovesJustGenerated == engine = "minimax" /\ pc = "moves" /\ period_moves # <<>>

OracleListed ==
  LET answer == last_response[1]
  IN IF answer.kind = "dict" /\ answer.has_moves /\ answer.moves_is_list
     THEN answer.moves ELSE <<>>

LastGenerated == period_moves[Len(period_moves)]

C15_ExactlyNumMovesLabels ==
  MovesJustGenerated =>
    /\ Len(LastGenerated) = moves_per_opponent
    /\ \A k \in 1..moves_per_opponent :
         LastGenerated[k] =
           IF k <= Len(OracleListed) THEN OracleListed[k]
           ELSE PlayerName(Len(period_moves)) \o " Strategy " \o ToString(k)

C15_Witness ==
  /\ MovesJustGenerated
  /\ moves_per_opponent = 2
  /\ Len(period_moves) = 2
  /\ OracleListed = <<"X">>
  /\ LastGenerated = <<"X", "Rival2 Strategy 2">>

\* C16: for every integer requested period count, 0 and negative ones
\* included, run_minimax_search runs at least one period: the period count it
\* returns is >= 1 and every child of the root is a move node of the
\* distinguished player, not a leaf.
C16_AtLeastOnePeriod ==
  MinimaxReturned =>
    /\ result[1].time_periods >= 1
    /\ RootChildren # <<>>
    /\ \A c \in 1..Len(RootChildren) :
         /\ tree_nodes[RootChildren[c]].player_index = Some(0)
         /\ ~tree_nodes[RootChildren[c]].is_leaf

\* the claim holds of the calls that request at least one period
C16_HoldsFromOnePeriod ==
  requested_periods >= 1 => C16_AtLeastOnePeriod

\* C17: the period count run_minimax_search returns is the number of periods
\* searched: it is min(requested, maximum feasible), every root-to-leaf path
\* of the returned tree has exactly that many nodes of the distinguished
\* player, and every leaf has time_period = that count - 1.
RECURSIVE PlayerNodesAbove(_)
PlayerNodesAbove(id) ==
  LET node == tree_nodes[id]
  IN (IF node.player_index = Some(0) THEN 1 ELSE 0)
       + (IF node.parent_id = None THEN 0 ELSE PlayerNodesAbove(node.parent_id[1]))

Leaves == {id \in DOMAIN tree_nodes : tree_nodes[id].is_leaf}

\* min(requested, largest p with scenarios_per_period^p <= 1500, floor 1)
MinRequestedFeasible ==
  IF requested_periods < 1 THEN requested_periods
  ELSE LargestFeasible(scenarios_per_period, requested_periods)

C17_ReportedPeriodsAreSearched ==
  MinimaxReturned =>
    /\ result[1].time_periods = MinRequestedFeasible
    /\ Leaves # {}
    /\ \A id \in Leaves :
         /\ PlayerNodesAbove(id) = result[1].time_periods
         /\ tree_nodes[id].time_period = Some(result[1].time_periods - 1)

\* the claim holds of the calls that request at least zero periods
C17_HoldsFromZeroPeriods ==
  requested_periods >= 0 => C17_ReportedPeriodsAreSearched

\* a horizon of three periods cut to one, reported as one
C17_ReducedAndReported ==
  /\ MinimaxReturned
  /\ requested_periods = 3
  /\ result[1].time_periods = 1
  /\ \A id \in Leaves : PlayerNodesAbove(id) = 1

\* C18: a second run_minimax_search on the same controller, with the same
\* arguments and against oracles that answer as they did the first time,
\* returns the tree the first returned (same node ids, labels, parents,
\* children order, scores), the same best_score and the same best_move.
SecondReturned == MinimaxReturned /\ calls = 2

C18_SecondSearchIdentical ==
  SecondReturned =>
    /\ first_return = Some([tree |-> tree_nodes, result |-> result[1]])
    /\ oracle_log.pos = Len(oracle_log.answers)

\* a second search of a two-level tree in which an oracle answer fell short
C18_Witness ==
  /\ SecondReturned
  /\ first_return # None
  /\ first_return[1].tree = tree_nodes
  /\ Cardinality(DOMAIN tree_nodes) >= 6
  /\ Len(oracle_log.answers) >= 3
  /\ oracle_faults = 1

\* C19: for every i the i-th leaf the tree builder creates (depth-first
\* construction order, which is the order of the node numbers) carries the
\* score recorded for scenario id s<i>, also when an action list holds the
\* same label more than once.
LeafIds ==
  SelectSeq([n \in 1..(node_counter - 1) |-> NodeId(n)],
            LAMBDA id : tree_nodes[id].is_leaf)

RecordedScore(idx) ==
  IF ScenarioId(idx) \in DOMAIN all_scores THEN all_scores[ScenarioId(idx)]
  ELSE DEFAULT_SCORE

C19_LeafCarriesScenarioScore ==
  pc = "done" =>
    \A i \in 1..Len(LeafIds) :
      tree_nodes[LeafIds[i]].score = Some(RecordedScore(i - 1))

NoRepeats(labels) ==
  \A i, j \in 1..Len(labels) : labels[i] = labels[j] => i = j

DistinctLabels ==
  /\ NoRepeats(action_set)
  /\ \A o \in 1..Len(period_moves) : NoRepeats(Letters(period_moves[o]))
  /\ \A p \in 1..Len(opponent_moves_by_period) :
       \A o \in 1..Len(opponent_moves_by_period[p]) :
         NoRepeats(opponent_moves_by_period[p][o])

\* the claim holds of the searches in which no list repeats a label
C19_HoldsForDistinctLabels ==
  DistinctLabels => C19_LeafCarriesScenarioScore

\* C20: the stages of run_minimax_search run in order with no backward step:
\* every MoveOracle call completes before scenario enumeration starts, the
\* scenario list is complete before the first ScoreOracle batch is issued, and
\* no node receives a score before the last ScoreOracle batch has been merged.
StageRank(p) ==
  CASE p = "idle" -> 0
    [] p = "cap" -> 1
    [] p = "reset" -> 2
    [] p = "moves" -> 3
    [] p = "scoring" -> 4
    [] p = "done" -> 5
    [] OTHER -> 6

ScoredNodes(nodes) == {id \in DOMAIN nodes : nodes[id].score # None}

StageStep ==
  /\ StageRank(pc') >= StageRank(pc)
  /\ move_calls' > move_calls =>
       /\ scenarios = <<>> /\ scenarios' = <<>>
       /\ score_calls' = 0
  /\ scenarios' # scenarios =>
       /\ Len(opponent_moves_by_period) >= time_periods
       /\ move_calls' = move_calls
       /\ score_calls' = 0
  /\ score_calls' > score_calls =>
       /\ scenarios' = scenarios
       /\ scenarios = NumberScenarios(generate_scenario_paths(0, <<>>))
       /\ move_calls' = move_calls
       /\ ScoredNodes(tree_nodes') = {}
  /\ ScoredNodes(tree_nodes') # ScoredNodes(tree_nodes) =>
       /\ batch_index >= Len(scenarios)
       /\ score_calls = (Len(scenarios) + BATCH_SIZE - 1) \div BATCH_SIZE
       /\ score_calls' = score_calls
       /\ all_scores' = all_scores

C20_StagesInOrder == [][engine = "minimax" => StageStep]_vars

\* a returned search of two periods that scored its scenarios in two batches
C20_Witness ==
  /\ MinimaxReturned
  /\ move_calls = 2
  /\ score_calls = 2
  /\ Len(scenarios) = 121
  /\ ScoredNodes(tree_nodes) # {}

\* the periods a search goes through: none when time_periods is below 1
PeriodsUsed == PyMax(time_periods, 0)

\* the labels of a node's children, in order
ChildLabels(id) ==
  [c \in 1..Len(tree_nodes[id].children) |-> tree_nodes[tree_nodes[id].children[c]].label]

\* the nodes whose children are the moves of opponent i in some period
OpponentParents ==
  {id \in DOMAIN tree_nodes :
     /\ tree_nodes[id].children # <<>>
     /\ tree_nodes[tree_nodes[id].children[1]].player_index # None
     /\ tree_nodes[tree_nodes[id].children[1]].player_index[1] >= 1}

ListOfChildren(id) ==
  LET first == tree_nodes[tree_nodes[id].children[1]]
  IN opponent_moves_by_period[first.time_period[1] + 1][first.player_index[1]]

\* C21: run_minimax_search makes exactly one MoveOracle call for each
\* (period, opponent) pair of the periods actually used, i.e. the period
\* count it returns times the number of opponents, a count taken after the
\* cap and not from the requested count; the list obtained for a pair is the
\* one every scenario and every tree node of that period and opponent uses.
C21_OneMoveCallPerPair ==
  MinimaxReturned =>
    /\ move_calls = result[1].time_periods * num_opponents
    /\ Len(opponent_moves_by_period) = result[1].time_periods
    /\ \A p \in 1..Len(opponent_moves_by_period) :
         Len(opponent_moves_by_period[p]) = num_opponents
    /\ \A n \in 1..Len(scenarios) :
         /\ Len(scenarios[n].path) = PathPositions
         /\ \A q \in 1..PathPositions :
              scenarios[n].path[q].move \in Range(PositionOptions(q))
    /\ \A id \in OpponentParents : ChildLabels(id) = ListOfChildren(id)

\* two periods against one opponent whose lists differ between the periods
C21_Witness ==
  /\ MinimaxReturned
  /\ num_opponents = 1
  /\ time_periods = 2
  /\ move_calls = 2
  /\ opponent_moves_by_period[1] # opponent_moves_by_period[2]
  /\ OpponentParents # {}

\* the same for every requested period count from 0 up
C21_HoldsFromZeroPeriods == requested_periods >= 0 => C21_OneMoveCallPerPair

\* a negative requested count is returned as it came while no call is made
C21_NoCallBelowZero ==
  /\ MinimaxReturned
  /\ num_opponents = 1
  /\ result[1].time_periods = 0 - 1
  /\ move_calls = 0

\* a horizon cut from three periods to one: one call, not three
C21_CallsAfterCap ==
  /\ MinimaxReturned
  /\ num_opponents = 1
  /\ requested_periods = 3
  /\ time_periods = 1
  /\ move_calls = 1

\* C22: every root-to-leaf path of the minimax tree holds, for each period
\* 0..p-1 in order, one node of player 0 followed by one node of each opponent
\* 1..k in profile order, and ends in exactly one leaf; with zero opponents it
\* holds the p player-0 nodes and the leaf, with no opponent layer.
RECURSIVE PathFromRoot(_)
PathFromRoot(id) ==
  IF tree_nodes[id].parent_id = None THEN <<>>
  ELSE Append(PathFromRoot(tree_nodes[id].parent_id[1]), id)

ChildlessNodes == {id \in DOMAIN tree_nodes : tree_nodes[id].children = <<>>}

PathAlternates(path) ==
  /\ Len(path) = PathPositions + 1
  /\ \A q \in 1..PathPositions :
       /\ tree_nodes[path[q]].player_index = Some(PositionPlayer(q))
       /\ tree_nodes[path[q]].time_period = Some(PositionPeriod(q))
       /\ ~tree_nodes[path[q]].is_leaf
  /\ tree_nodes[path[Len(path)]].is_leaf
  /\ tree_nodes[path[Len(path)]].player_index = None

C22_PathsAlternate ==
  MinimaxReturned =>
    /\ ChildlessNodes = Leaves
    /\ Leaves # {}
    /\ \A id \in Leaves : PathAlternates(PathFromRoot(id))

\* two periods against two opponents: paths of six move nodes and a leaf
C22_Witness ==
  /\ MinimaxReturned
  /\ num_opponents = 2
  /\ time_periods = 2
  /\ \E id \in Leaves : Len(PathFromRoot(id)) = 7

\* two periods without an opponent: paths of two move nodes and a leaf
C22_WitnessSolo ==
  /\ MinimaxReturned
  /\ num_opponents = 0
  /\ time_periods = 2
  /\ \E id \in Leaves : Len(PathFromRoot(id)) = 3

\* C23: in every returned tree the root has no parent, is the only node
\* flagged is_root, and has exactly one child per entry of the distinguished
\* player's action set, in action-set order, each labelled with that action.
C23_RootHasOneChildPerAction ==
  MinimaxReturned =>
    /\ tree_nodes[NodeId(0)].parent_id = None
    /\ {id \in DOMAIN tree_nodes : tree_nodes[id].is_root} = {NodeId(0)}
    /\ ChildLabels(NodeId(0)) = action_set
    /\ \A c \in 1..Len(RootChildren) :
         tree_nodes[RootChildren[c]].player_index = Some(0)

\* the claim holds of the calls that request at least one period
C23_HoldsFromOnePeriod ==
  requested_periods >= 1 => C23_RootHasOneChildPerAction

\* C24: the MaxNController tree is one ply deep per player in index order
\* (player 0, each opponent, then a leaf); the root's score is the maximum over
\* the player-0 children; a node whose children are opponent moves has the
\* minimum of their scores; so each player-0 node's score is the minimum
\* scenario score over all opponent move combinations.
MaxNReturned == pc = "done" /\ engine = "maxn" /\ action_set # <<>>

MaxNPlies(path) ==
  /\ Len(path) = num_opponents + 2
  /\ \A q \in 1..(num_opponents + 1) :
       tree_nodes[path[q]].player_index = Some(q - 1)
  /\ tree_nodes[path[Len(path)]].player_index = None

RECURSIVE CombinationsOf(_)
CombinationsOf(lists) ==
  IF lists = <<>> THEN 1 ELSE Len(Head(lists)) * CombinationsOf(Tail(lists))

\* the scores recorded for the scenarios that start with the a-th action
ScenarioScoresOf(a) ==
  LET w == CombinationsOf(MoveLists(period_moves))
  IN {RecordedScore(idx) : idx \in ((a - 1) * w)..(a * w - 1)}

MaxNOnePlyPerPlayer ==
  MaxNReturned => \A id \in ChildlessNodes : MaxNPlies(PathFromRoot(id))

MaxNMinOverOpponentMoves ==
  MaxNReturned =>
    /\ tree_nodes[NodeId(0)].score = Some(SetMax(ChildScores(NodeId(0))))
    /\ \A id \in DOMAIN tree_nodes \ ChildlessNodes :
         (tree_nodes[id].player_index # None)
           => tree_nodes[id].score = Some(SetMin(ChildScores(id)))

MaxNMinOverScenarios ==
  MaxNReturned =>
    \A a \in 1..Len(RootChildren) :
      tree_nodes[RootChildren[a]].score = Some(SetMin(ScenarioScoresOf(a)))

C24_MaxNMinOverCombinations ==
  MaxNOnePlyPerPlayer /\ MaxNMinOverOpponentMoves /\ MaxNMinOverScenarios

\* the claim holds of the searches in which no list repeats a label
C24_HoldsForDistinctLabels ==
  DistinctLabels => C24_MaxNMinOverCombinations

\* C25: when a scoring batch call yields no usable response, the engine
\* issues that same batch to the ScoreOracle once more before it fills the
\* batch's scenarios with the default score.
UnusableScoreResponse(response) ==
  ~(TruthyScoreDict(response) /\ response.has_scores)

LastBatch == score_batches[Len(score_batches)]

\* the last batch went unanswered and its scenarios now hold the default
FilledAfterNoResponse ==
  /\ engine = "minimax"
  /\ pc \in {"scoring", "done"}
  /\ score_batches # <<>>
  /\ UnusableScoreResponse(last_response[1])
  /\ \A n \in 1..Len(LastBatch) :
       LastBatch[n] \in DOMAIN all_scores /\ all_scores[LastBatch[n]] = DEFAULT_SCORE

C25_BatchRetriedOnce ==
  FilledAfterNoResponse =>
    /\ Len(score_batches) >= 2
    /\ score_batches[Len(score_batches) - 1] = LastBatch

\* C26: after a sequence of run_minimax_search invocations on one controller
\* the tree the latest returns holds only nodes that invocation created, with
\* ids restarting at node_0, and no node, child link or score of an earlier
\* invocation.
\* the tree a controller that never searched before builds from the moves and
\* scores of the latest invocation
FreshTree ==
  _build_multi_turn_tree([nodes |-> PutNode(EmptyDict, RootNode(time_periods)),
                          counter |-> 1], NodeId(0), all_scores).nodes

C26_OnlyNodesOfLatestSearch ==
  SecondReturned =>
    /\ DOMAIN tree_nodes = {NodeId(n) : n \in 0..(node_counter - 1)}
    /\ Cardinality(Leaves) = Len(scenarios)
    /\ \A id \in DOMAIN tree_nodes \ {NodeId(0)} :
         /\ PathFromRoot(id)[1] \in Range(RootChildren)
         /\ id \in Range(tree_nodes[tree_nodes[id].parent_id[1]].children)
    /\ tree_nodes = FreshTree

\* a later search of one action over one period, after an earlier search
\* whose tree had five nodes or more: root, move node and leaf, nothing else
C26_Witness ==
  /\ SecondReturned
  /\ Len(action_set) = 1
  /\ num_opponents = 0
  /\ time_periods = 1
  /\ Cardinality(DOMAIN tree_nodes) = 3

\* C27: the final score of a scenario depends only on the response to the
\* batch it was submitted in: an entry of another batch's response keyed by a
\* scenario id outside that batch never changes the score of a scenario of a
\* different batch. Stated of each merge: the scores held for scenarios
\* outside the batch just answered stay as they were.
MergeKeepsOtherBatches ==
  (engine = "minimax" /\ score_calls' = score_calls + 1 /\ pc' = "scoring") =>
    \A n \in 1..Len(scenarios) :
      (/\ scenarios[n].id \in DOMAIN all_scores
       /\ scenarios[n].id \notin Range(score_batches'[Len(score_batches')]))
        => all_scores'[scenarios[n].id] = all_scores[scenarios[n].id]

C27_NoCrossBatchDependency == [][MergeKeepsOtherBatches]_vars

\* C28: the default 0.5 is applied only to scenarios the oracle left out: when
\* the ScoreOracle response holds a numeric score v in [0, 1] for a submitted
\* scenario id, the leaf of that scenario carries exactly v, v = 0.0 included,
\* and the returned best_score equals the root node's score in the returned
\* tree.
\* the leaves of either engine's tree, in construction order
TerminalIds ==
  SelectSeq([n \in 1..(node_counter - 1) |-> NodeId(n)],
            LAMBDA id : tree_nodes[id].children = <<>> /\ tree_nodes[id].player_index = None)

ReturnedOnNumericScores ==
  /\ pc = "done"
  /\ score_calls = 1
  /\ PartialAnswer(last_response[1])

C28_AnsweredScoreKept ==
  ReturnedOnNumericScores =>
    /\ \A i \in 1..Len(TerminalIds) :
         Answered(last_response[1], ScenarioId(i - 1)) # {}
           => tree_nodes[TerminalIds[i]].score = Some(RatedIn(last_response[1], i - 1))
    /\ tree_nodes[NodeId(0)].score = Some(result[1].best_score)

NoZeroScore ==
  /\ \A i \in 1..Len(last_response[1].items) : last_response[1].items[i].score.v # 0
  /\ tree_nodes[NodeId(0)].score \notin {None, Some(0)}

\* the claim holds when no score is 0.0 and no list repeats a label
C28_HoldsWithoutZero ==
  (ReturnedOnNumericScores /\ DistinctLabels /\ NoZeroScore) => C28_AnsweredScoreKept

\* with distinct labels alone the claim as stated
C28_DistinctLabelsOnly ==
  DistinctLabels => C28_AnsweredScoreKept

\* ---------------------------------------------------------------------
\* C29
NodeIds == {NodeId(n) : n \in 0..(Cardinality(DOMAIN tree_nodes) - 1)}

TimesListed(parent_id, child_id) ==
  Cardinality({i \in 1..Len(tree_nodes[parent_id].children) : tree_nodes[parent_id].children[i] = child_id})

IdsAreConsecutive ==
  /\ DOMAIN tree_nodes = NodeIds
  /\ node_counter = Cardinality(DOMAIN tree_nodes)
  /\ \A id \in DOMAIN tree_nodes : tree_nodes[id].id = id

RootIsNodeZero ==
  /\ NodeId(0) \in DOMAIN tree_nodes
  /\ tree_nodes[NodeId(0)].is_root
  /\ tree_nodes[NodeId(0)].parent_id = None
  /\ \A id \in DOMAIN tree_nodes \ {NodeId(0)} : ~tree_nodes[id].is_root

ParentsListChildren ==
  \A id \in DOMAIN tree_nodes \ {NodeId(0)} :
     /\ tree_nodes[id].parent_id # None
     /\ tree_nodes[id].parent_id[1] \in DOMAIN tree_nodes
     /\ TimesListed(tree_nodes[id].parent_id[1], id) = 1

ChildrenNameParent ==
  \A id \in DOMAIN tree_nodes : \A c \in Range(tree_nodes[id].children) :
     /\ c \in DOMAIN tree_nodes
     /\ tree_nodes[c].parent_id = Some(id)

LeavesAreChildless == Leaves \subseteq ChildlessNodes

\* C29: every tree returned by run_minimax_search is well formed: the ids
\* are exactly node_0 .. node_(n-1), node_0 is the root, every other node's
\* parent exists and lists it exactly once, every listed child names the
\* listing node as its parent, leaves have no children, and there are as
\* many leaves as scenarios submitted to the ScoreOracle.
C29_TreeWellFormed ==
  MinimaxReturned =>
     /\ IdsAreConsecutive
     /\ RootIsNodeZero
     /\ ParentsListChildren
     /\ ChildrenNameParent
     /\ LeavesAreChildless
     /\ Cardinality(Leaves) = Len(scenarios)

\* a returned tree of two periods against one opponent: interior nodes of
\* both players over four or more leaves
C29_Witness ==
  /\ MinimaxReturned
  /\ num_opponents = 1
  /\ time_periods = 2
  /\ Cardinality(Leaves) >= 4
  /\ Cardinality(Leaves) = Len(scenarios)
  /\ Cardinality(DOMAIN tree_nodes) > Cardinality(Leaves) + 4

\* ---------------------------------------------------------------------
\* C30
\* |action_set| * moves_per_opponent^(number of opponents) is BranchingFactor

\* the scenarios of a search are listed once (lines 562-609); the list is what
\* the batches submit and is unchanged from there to the return
ScenariosListed == engine = "minimax" /\ pc \in {"scoring", "done"}

\* C30: whenever run_minimax_search returns and one period alone has at most
\* 1500 scenarios, the scenarios submitted to the ScoreOracle number at most
\* 1500, whatever the requested period count and for zero or more opponents;
\* the ceiling is exceeded only when one period alone exceeds it. Stated
\* from the listing of the scenarios on, which includes every return.
C30_ScenariosUnderCeiling ==
  ScenariosListed =>
     /\ Len(scenarios) = Pow(BranchingFactor, PeriodsUsed)
     /\ BranchingFactor <= MAX_SCENARIOS => Len(scenarios) <= MAX_SCENARIOS
     /\ Len(scenarios) > MAX_SCENARIOS => BranchingFactor > MAX_SCENARIOS

\* a search that asked for a horizon whose scenarios would exceed the
\* ceiling, was reduced, and returned with all its scenarios submitted
C30_Witness ==
  /\ MinimaxReturned
  /\ BranchingFactor <= MAX_SCENARIOS
  /\ Pow(BranchingFactor, requested_periods) > MAX_SCENARIOS
  /\ time_periods < requested_periods
  /\ Len(scenarios) = BranchingFactor
  /\ DOMAIN all_scores = Range(AllScenarioIds)

\* the same without an opponent, where the planner counts
\* moves_per_opponent although no opponent moves
C30_WitnessSolo ==
  /\ MinimaxReturned
  /\ num_opponents = 0
  /\ moves_per_opponent = 3
  /\ requested_periods = 2
  /\ time_periods = 1
  /\ Len(scenarios) = 13

====
